---- MODULE Spec2Model ----
(***************************************************************************)
(* Navigation store of getmethere: the navigation slice (route catalog,    *)
(* ETA tracking, announcements), the polyline decoder it calls, the        *)
(* haversine distance, and the effects and timer of NavigationScreen that  *)
(* dispatch updateEta.                                                     *)
(*                                                                         *)
(* Representation                                                          *)
(*   - null / undefined is the empty sequence Null, a present value v is   *)
(*     <<v>> (so `route = Null`, `route[1].polyline`).  alternativeRoutes  *)
(*     is Null or <<rs>> with rs the array: null and [] stay different.    *)
(*   - a string that the code indexes (a polyline) is the sequence of its  *)
(*     char codes; "" is <<>>.                                             *)
(*   - a number that may be NaN or fractional is [kind, v].                *)
(*   - latitude / longitude are integers in units of 1e-5 degree (the      *)
(*     decoder's own integer accumulators lat, lng).                       *)
(*   - wall-clock time (Date.now()) is in milliseconds, distances are in   *)
(*     whole metres and durations in whole seconds (the code's doubles,    *)
(*     truncated).                                                         *)
(***************************************************************************)
EXTENDS Integers, Sequences, FiniteSets, TLC

VARIABLES
    currentLocation,        \* Null or <<[latitude, longitude]>>
    waypoints,              \* sequence of [name, order]
    route,                  \* Null or <<Route>>
    alternativeRoutes,      \* Null or <<sequence of Route>>
    selectedRouteIndex,
    error,                  \* Null or <<message>>
    speed,                  \* Null or <<metres per second>>
    currentEta,             \* Null or <<EtaState>>
    lastEtaUpdate,
    voiceEnabled,
    updateFrequency,        \* "normal" | "frequent"
    isNavigationCardVisible,
    cardState,              \* "hidden" | "minimized" | "expanded"
    lastRouteSwitch,
    now,                    \* Date.now(), milliseconds
    platformOS,             \* Platform.OS
    tzHour,                 \* local hour of day at time 0 (the device's zone)
    op,                     \* the reducer that ran last, with its payload
    logged,                 \* what that reducer wrote to console.error
    spoken,                 \* what that reducer handed to Speech.speak
    snapshotAt,             \* Null or <<when updateEta last stored a snapshot>>
    spokeAt,                \* Null or <<when updateEta last called Speech.speak>>
    args,                   \* the arguments of a helper that is called directly
    returned,               \* Null or <<what that call returned>>
    etaUpdateInterval,      \* NavigationScreen's timer: Null or <<when it last fired or was set>>
    etaEffectDeps,          \* Null or <<[route, currentLocation] its ETA effect last ran for>>
    speedEffectDeps,        \* Null or <<[currentLocation?.speed, route] its speed effect last ran for>>
    loading,
    heading,                \* Null or <<degrees>>
    cache,                  \* AsyncStorage at CACHE_KEY: Null or <<the entry>>
    cacheLoads,             \* the waypoints of the loadCachedRoute runs that await getItem
    cacheEffectDeps,        \* Null or <<the waypoints the cache effect last ran for>>
    fetches,                \* the fetchRoute runs that await getDirections
    fetchEffectDeps,        \* Null or <<[currentLocation, waypoints] the fetch effect last ran for>>
    locationPermission,     \* what useLocation returned to the screen
    locationMounted,        \* useLocation's component is mounted
    setupStage,             \* where setupLocation is: the call it awaits, or how it ended
    locationSubscription,   \* the ref: Null or <<"subscription">>
    headingSubscription,    \* the ref: Null or <<"subscription">>
    positionWatch,          \* the position watch: "none" | "active" | "removed"
    headingWatch,           \* the heading watch: "none" | "active" | "removed"
    lastLocation,           \* the ref: Null or <<coords>>
    placeLookups,           \* SearchBar's handlePlaceSelect runs that await getPlaceDetails
    retries,                \* handleRetry's fetchRoute runs that await getDirections
    routeSwitch             \* RouteSelector: Null, or <<the button pressed>> while isSwitching

sliceVars == <<currentLocation, waypoints, route, alternativeRoutes,
               selectedRouteIndex, error, speed, currentEta, lastEtaUpdate,
               voiceEnabled, updateFrequency, isNavigationCardVisible,
               cardState, lastRouteSwitch, loading, heading>>

vars == <<currentLocation, waypoints, route, alternativeRoutes,
          selectedRouteIndex, error, speed, currentEta, lastEtaUpdate,
          voiceEnabled, updateFrequency, isNavigationCardVisible,
          cardState, lastRouteSwitch, now, platformOS, tzHour, op, logged,
          spoken, snapshotAt, spokeAt, args, returned, etaUpdateInterval,
          etaEffectDeps, speedEffectDeps, loading, heading, cache, cacheLoads,
          cacheEffectDeps, fetches, fetchEffectDeps, locationPermission,
          locationMounted, setupStage, locationSubscription,
          headingSubscription, positionWatch, headingWatch, lastLocation,
          placeLookups, retries, routeSwitch>>

screenVars == <<etaUpdateInterval, etaEffectDeps, speedEffectDeps>>

\* NavigationScreen's route cache and its two effects that use it
cacheVars == <<cache, cacheLoads, cacheEffectDeps, fetches, fetchEffectDeps>>

\* the useLocation hook
locationVars == <<locationPermission, locationMounted, setupStage,
                  locationSubscription, headingSubscription, positionWatch,
                  headingWatch, lastLocation>>

\* the SearchBar component
searchVars == <<placeLookups>>

\* NavigationScreen's retry button
retryVars == <<retries>>

\* the RouteSelector component
selectorVars == <<routeSwitch>>

hostVars == <<cacheVars, locationVars, searchVars, retryVars, selectorVars>>

Null == <<>>
Some(v) == <<v>>

Num(n) == [kind |-> "num", v |-> n]
\* n + 0.5
Frac(n) == [kind |-> "frac", v |-> n]
NaN == [kind |-> "nan", v |-> 0]

----------------------------------------------------------------------------
(* Bounds of the model *)

\* Date.now() at start-up: above every interval of the slice, as the epoch
\* time is
StartTime == 100000
\* the longest alternativeRoutes array
MaxAlternatives == 2
\* the most waypoints in the list
MaxWaypoints == 2

----------------------------------------------------------------------------
(* Constants of the slice *)

OFF_ROUTE_THRESHOLD == 100
FREQUENT_UPDATE_DISTANCE == 5000
VOICE_ANNOUNCEMENT_INTERVAL == 60000
ROUTE_SWITCH_DEBOUNCE == 500

Abs(x) == IF x < 0 THEN -x ELSE x

\* floor(sqrt(n)), by bisection on [lo, hi)
ISqrt(n) ==
    LET Bisect[lo \in Nat, hi \in Nat] ==
            IF hi - lo <= 1 THEN lo
            ELSE LET mid == (lo + hi) \div 2
                 IN  IF mid * mid <= n THEN Bisect[mid, hi] ELSE Bisect[lo, mid]
    IN  Bisect[0, 46341]

\* Math.round(a / b), b > 0: floor(a / b + 1/2)
RoundDiv(a, b) == (a \div b) + (IF 2 * (a % b) >= b THEN 1 ELSE 0)

----------------------------------------------------------------------------
(* navigationService.decodePolyline *)

\* One value of the wire format, read from encoded[index] on (1-based):
\* chunks of charCode - 63, low five bits shifted in at 0, 5, 10, ..., until a
\* chunk below 0x20.  ok = FALSE is the `Unexpected end of polyline` throw.
\* The chunks' bits do not overlap, so `result |= bits << shift` adds them;
\* shifts stay within the six chunks (30 bits) that a coordinate delta needs.
ReadChunks(encoded, index, shift, result) ==
    LET Read[i \in Nat, s \in Nat, acc \in Int] ==
            IF i > Len(encoded)
            THEN [ok |-> FALSE, result |-> acc, index |-> i]
            ELSE LET byte == encoded[i] - 63
                     r    == acc + (byte % 32) * (2 ^ s)
                 IN  IF byte >= 32
                     THEN Read[i + 1, s + 5, r]
                     ELSE [ok |-> TRUE, result |-> r, index |-> i + 1]
    IN  Read[index, shift, result]

\* ZigZagDecode that drops the sign bit without complementing
ZigZagDecode_Unsigned(result) == result \div 2

\* (result & 1) ? ~(result >> 1) : (result >> 1)
ZigZagDecode(result) ==
    IF result % 2 = 1 THEN -(result \div 2) - 1 ELSE result \div 2

ValidCoordinate(lat, lng) ==
    /\ lat >= -9000000 /\ lat <= 9000000
    /\ lng >= -18000000 /\ lng <= 18000000

\* DecodeFrom that drops what it has decoded when the string ends mid-value
DecodeFrom_NoPartialResult(encoded, index, lat, lng, coordinates) ==
    LET Loop[i \in Nat, la \in Int, ln \in Int] ==
            IF i > Len(encoded) THEN [ok |-> TRUE, out |-> <<>>]
            ELSE LET a == ReadChunks(encoded, i, 0, 0)
                 IN  IF ~a.ok THEN [ok |-> FALSE, out |-> <<>>]
                     ELSE LET lat2 == la + ZigZagDecode(a.result)
                              b    == ReadChunks(encoded, a.index, 0, 0)
                          IN  IF ~b.ok THEN [ok |-> FALSE, out |-> <<>>]
                              ELSE LET lng2 == ln + ZigZagDecode(b.result)
                                       rest == Loop[b.index, lat2, lng2]
                                   IN  [ok  |-> rest.ok,
                                        out |-> (IF ValidCoordinate(lat2, lng2)
                                                 THEN <<[latitude |-> lat2,
                                                         longitude |-> lng2]>>
                                                 ELSE <<>>) \o rest.out]
        r == Loop[index, lat, lng]
    IN  IF r.ok THEN coordinates \o r.out ELSE <<>>

\* DecodeFrom that takes every decoded value as a coordinate of its own
\* instead of adding it to the running lat, lng
DecodeFrom_AbsoluteValues(encoded, index, lat, lng, coordinates) ==
    LET Loop[i \in Nat] ==
            IF i > Len(encoded) THEN <<>>
            ELSE LET a == ReadChunks(encoded, i, 0, 0)
                 IN  IF ~a.ok THEN <<>>
                     ELSE LET lat2 == ZigZagDecode(a.result)
                              b    == ReadChunks(encoded, a.index, 0, 0)
                          IN  IF ~b.ok THEN <<>>
                              ELSE LET lng2 == ZigZagDecode(b.result)
                                   IN  (IF ValidCoordinate(lat2, lng2)
                                        THEN <<[latitude |-> lat2, longitude |-> lng2]>>
                                        ELSE <<>>)
                                       \o Loop[b.index]
    IN  coordinates \o Loop[index]

\* DecodeFrom that takes back the deltas of a point it does not push
DecodeFrom_DropsRejectedDelta(encoded, index, lat, lng, coordinates) ==
    LET Loop[i \in Nat, la \in Int, ln \in Int] ==
            IF i > Len(encoded) THEN <<>>
            ELSE LET a == ReadChunks(encoded, i, 0, 0)
                 IN  IF ~a.ok THEN <<>>
                     ELSE LET lat2 == la + ZigZagDecode(a.result)
                              b    == ReadChunks(encoded, a.index, 0, 0)
                          IN  IF ~b.ok THEN <<>>
                              ELSE LET lng2 == ln + ZigZagDecode(b.result)
                                   IN  IF ValidCoordinate(lat2, lng2)
                                       THEN <<[latitude |-> lat2, longitude |-> lng2]>>
                                            \o Loop[b.index, lat2, lng2]
                                       ELSE Loop[b.index, la, ln]
    IN  coordinates \o Loop[index, lat, lng]

\* the while loop, entered at encoded[index] with the running lat, lng and the
\* coordinates pushed so far
DecodeFrom(encoded, index, lat, lng, coordinates) ==
    LET Loop[i \in Nat, la \in Int, ln \in Int] ==
            IF i > Len(encoded) THEN <<>>
            ELSE LET a == ReadChunks(encoded, i, 0, 0)
                 IN  IF ~a.ok THEN <<>>
                     ELSE LET lat2 == la + ZigZagDecode(a.result)
                              b    == ReadChunks(encoded, a.index, 0, 0)
                          IN  IF ~b.ok THEN <<>>
                              ELSE LET lng2 == ln + ZigZagDecode(b.result)
                                   IN  (IF ValidCoordinate(lat2, lng2)
                                        THEN <<[latitude |-> lat2, longitude |-> lng2]>>
                                        ELSE <<>>)
                                       \o Loop[b.index, lat2, lng2]
    IN  coordinates \o Loop[index, lat, lng]

decodePolyline(encoded) ==
    IF encoded = <<>> THEN <<>> ELSE DecodeFrom(encoded, 1, 0, 0, <<>>)

\* The wire format written out: one signed value as its zigzag code
\* (v < 0 ? ~(v << 1) : v << 1) in 5-bit chunks, low chunk first, 0x20 set on
\* every chunk but the last, each chunk plus 63.
EncodeValue(v) ==
    LET Chunks[n \in Nat] ==
            IF n >= 32 THEN <<32 + (n % 32) + 63>> \o Chunks[n \div 32]
            ELSE <<n + 63>>
    IN  Chunks[IF v < 0 THEN -(2 * v) - 1 ELSE 2 * v]

\* encode(path): per point the latitude delta, then the longitude delta, each
\* taken from the point before (from 0, 0 for the first point)
encode(path) ==
    LET Enc[k \in Nat, la \in Int, ln \in Int] ==
            IF k > Len(path) THEN <<>>
            ELSE EncodeValue(path[k].latitude - la)
                 \o EncodeValue(path[k].longitude - ln)
                 \o Enc[k + 1, path[k].latitude, path[k].longitude]
    IN  Enc[1, 0, 0]

----------------------------------------------------------------------------
(* navigationSlice helpers *)

\* Haversine distance in whole metres.  For the model's points, all within a
\* fraction of a degree of the equator and of each other, the haversine
\* formula agrees with R * sqrt(dlat^2 + dlon^2) (angles in radians) to well
\* under a metre; one unit of 1e-5 degree is 6371000 * pi / 180 * 1e-5 =
\* 1.11195 m.
getDistance(lat1, lon1, lat2, lon2) ==
    (ISqrt((lat2 - lat1) * (lat2 - lat1) + (lon2 - lon1) * (lon2 - lon1)) * 11119)
        \div 10000

\* ClosestScan that lets a later vertex at the same distance replace an
\* earlier one
ClosestScan_LastOfTies(loc, coordinates, i, minDistance, closestIndex) ==
    LET Scan[k \in Nat, m \in Seq(Nat), c \in Nat] ==
            IF k > Len(coordinates)
            THEN [minDistance |-> m, closestIndex |-> c]
            ELSE LET distance == getDistance(loc.latitude, loc.longitude,
                                             coordinates[k].latitude,
                                             coordinates[k].longitude)
                 IN  IF m = Null \/ distance <= m[1]
                     THEN Scan[k + 1, Some(distance), k]
                     ELSE Scan[k + 1, m, c]
    IN  Scan[i, minDistance, closestIndex]

\* the first loop of calculateRouteStatus: [minDistance, closestIndex], with
\* minDistance Null for Infinity
ClosestScan(loc, coordinates, i, minDistance, closestIndex) ==
    LET Scan[k \in Nat, m \in Seq(Nat), c \in Nat] ==
            IF k > Len(coordinates)
            THEN [minDistance |-> m, closestIndex |-> c]
            ELSE LET distance == getDistance(loc.latitude, loc.longitude,
                                             coordinates[k].latitude,
                                             coordinates[k].longitude)
                 IN  IF m = Null \/ distance < m[1]
                     THEN Scan[k + 1, Some(distance), k]
                     ELSE Scan[k + 1, m, c]
    IN  Scan[i, minDistance, closestIndex]

\* the second loop: path length from vertex i to the last vertex
RemainingFrom(coordinates, i) ==
    LET Rest[k \in Nat] ==
            IF k >= Len(coordinates) THEN 0
            ELSE getDistance(coordinates[k].latitude, coordinates[k].longitude,
                             coordinates[k + 1].latitude, coordinates[k + 1].longitude)
                 + Rest[k + 1]
    IN  Rest[i]

\* IsOffRoute that counts the threshold itself as off the route
IsOffRoute_AtThreshold(minDistance) == minDistance >= OFF_ROUTE_THRESHOLD

IsOffRoute(minDistance) == minDistance > OFF_ROUTE_THRESHOLD

\* the status once the path is decoded; minimum: the fewest coordinates that
\* make a path
StatusOn(loc, coordinates, minimum) ==
    IF Len(coordinates) < minimum THEN Null
    ELSE LET c == ClosestScan(loc, coordinates, 1, Null, 1)
         IN  Some([remainingDistance |-> RemainingFrom(coordinates, c.closestIndex),
                   isOffRoute        |-> IsOffRoute(c.minDistance[1]),
                   distanceToRoute   |-> c.minDistance[1]])

\* calculateRouteStatus with `coordinates.length < 1` as its guard
calculateRouteStatus_OnePointPath(loc, polyline) ==
    CHOOSE status \in {StatusOn(loc, coordinates, 1) :
                          coordinates \in {decodePolyline(polyline)}} : TRUE

calculateRouteStatus(loc, polyline) ==
    CHOOSE status \in {StatusOn(loc, coordinates, 2) :
                          coordinates \in {decodePolyline(polyline)}} : TRUE

\* new Date(timestamp).getHours()
HourOf(timestamp) == (tzHour + timestamp \div 3600000) % 24

\* getTrafficDelay that knows the morning rush hour only
getTrafficDelay_MorningOnly(distance, timestamp) ==
    LET hour == HourOf(timestamp)
        isRushHour == hour >= 7 /\ hour <= 9
    IN  IF isRushHour THEN distance \div 250 ELSE 0

getTrafficDelay(distance, timestamp) ==
    LET hour == HourOf(timestamp)
        isRushHour == (hour >= 7 /\ hour <= 9) \/ (hour >= 16 /\ hour <= 18)
    IN  IF isRushHour THEN distance \div 250 ELSE 0

\* The text as its parts: the arrival phrase and the delay clause (0 = none).
formatEta(timestamp, trafficDelay, t) ==
    LET minutes == RoundDiv(timestamp - t, 60000)
        delay   == IF trafficDelay > 300 THEN RoundDiv(trafficDelay, 60) ELSE 0
    IN  IF minutes < 1
        THEN [arriving |-> "now", hours |-> 0, minutes |-> 0, delayMinutes |-> delay]
        ELSE IF minutes < 60
        THEN [arriving |-> "min", hours |-> 0, minutes |-> minutes,
              delayMinutes |-> delay]
        ELSE [arriving |-> "h m", hours |-> minutes \div 60,
              minutes |-> minutes % 60, delayMinutes |-> delay]

OrZero(opt) == IF opt = Null THEN 0 ELSE opt[1]

\* shouldAnnounceEta that announces a first snapshot only when it is off route
shouldAnnounceEta_FirstNeedsTrigger(current, newEta, t) ==
    IF current = Null THEN newEta.isOffRoute
    ELSE IF t - OrZero(current[1].lastVoiceAnnouncement) < VOICE_ANNOUNCEMENT_INTERVAL
    THEN FALSE
    ELSE LET etaChanged     == Abs(current[1].value - newEta.value) > 300
             wentOffRoute   == ~current[1].isOffRoute /\ newEta.isOffRoute
             trafficChanged == /\ current[1].trafficDelay # 0
                               /\ newEta.trafficDelay # 0
                               /\ Abs(current[1].trafficDelay - newEta.trafficDelay) > 300
         IN  etaChanged \/ wentOffRoute \/ trafficChanged

shouldAnnounceEta(current, newEta, t) ==
    IF current = Null THEN TRUE
    ELSE IF t - OrZero(current[1].lastVoiceAnnouncement) < VOICE_ANNOUNCEMENT_INTERVAL
    THEN FALSE
    ELSE LET etaChanged     == Abs(current[1].value - newEta.value) > 300
             wentOffRoute   == ~current[1].isOffRoute /\ newEta.isOffRoute
             trafficChanged == /\ current[1].trafficDelay # 0
                               /\ newEta.trafficDelay # 0
                               /\ Abs(current[1].trafficDelay - newEta.trafficDelay) > 300
         IN  etaChanged \/ wentOffRoute \/ trafficChanged

\* announceEta that never mentions the traffic
announceEta_NoDelayClause(eta, isOffRoute) ==
    LET minutes == RoundDiv(eta.value, 60)
        announcement ==
            IF isOffRoute
            THEN [say |-> "off route", hours |-> 0, minutes |-> 0, delayMinutes |-> 0]
            ELSE IF minutes < 1
            THEN [say |-> "arrived", hours |-> 0, minutes |-> 0, delayMinutes |-> 0]
            ELSE IF minutes < 60
            THEN [say |-> "minutes", hours |-> 0, minutes |-> minutes,
                  delayMinutes |-> 0]
            ELSE [say |-> "hours", hours |-> minutes \div 60,
                  minutes |-> minutes % 60, delayMinutes |-> 0]
    IN  IF platformOS \in {"ios", "android"} THEN Some(announcement) ELSE Null

\* announceEta with the delay clause from 300 s on
announceEta_DelayFromFiveMinutes(eta, isOffRoute) ==
    LET minutes == RoundDiv(eta.value, 60)
        delay   == IF eta.trafficDelay >= 300 THEN RoundDiv(eta.trafficDelay, 60) ELSE 0
        announcement ==
            IF isOffRoute
            THEN [say |-> "off route", hours |-> 0, minutes |-> 0, delayMinutes |-> 0]
            ELSE IF minutes < 1
            THEN [say |-> "arrived", hours |-> 0, minutes |-> 0, delayMinutes |-> delay]
            ELSE IF minutes < 60
            THEN [say |-> "minutes", hours |-> 0, minutes |-> minutes,
                  delayMinutes |-> delay]
            ELSE [say |-> "hours", hours |-> minutes \div 60,
                  minutes |-> minutes % 60, delayMinutes |-> delay]
    IN  IF platformOS \in {"ios", "android"} THEN Some(announcement) ELSE Null

\* The sentence handed to Speech.speak, as its parts; Null off the two mobile
\* platforms.
announceEta(eta, isOffRoute) ==
    LET minutes == RoundDiv(eta.value, 60)
        delay   == IF eta.trafficDelay > 300 THEN RoundDiv(eta.trafficDelay, 60) ELSE 0
        announcement ==
            IF isOffRoute
            THEN [say |-> "off route", hours |-> 0, minutes |-> 0, delayMinutes |-> 0]
            ELSE IF minutes < 1
            THEN [say |-> "arrived", hours |-> 0, minutes |-> 0, delayMinutes |-> delay]
            ELSE IF minutes < 60
            THEN [say |-> "minutes", hours |-> 0, minutes |-> minutes,
                  delayMinutes |-> delay]
            ELSE [say |-> "hours", hours |-> minutes \div 60,
                  minutes |-> minutes % 60, delayMinutes |-> delay]
    IN  IF platformOS \in {"ios", "android"} THEN Some(announcement) ELSE Null

----------------------------------------------------------------------------
(* Inputs: routes as the directions service builds them *)

MakeRoute(polyline, steps, distance, duration) ==
    [polyline |-> polyline, steps |-> steps, distance |-> distance,
     duration |-> duration]

Metric(text, value) == Some([text |-> text, value |-> value])

\* "???ozD?ozD": (0,0) (0,0.03) (0,0.06), two legs of 3335 m
MainPolyline == <<63, 63, 63, 111, 122, 68, 63, 111, 122, 68>>
\* "??g^ozDf^ozD": (0,0) (0.005,0.03) (0,0.06)
AltPolyline == <<63, 63, 103, 94, 111, 122, 68, 102, 94, 111, 122, 68>>
\* "??": the single point (0,0)
OnePointPolyline == <<63, 63>>

MainRoute == MakeRoute(MainPolyline, Some(<<"Head east">>),
                       Metric("4.1 mi", 6670), Metric("8 min", 480))
AltRoute == MakeRoute(AltPolyline, Some(<<"Head north-east">>),
                      Metric("4.2 mi", 6762), Metric("9 min", 540))
\* steps: [] as in the slice's own tests
EmptyStepsRoute == MakeRoute(MainPolyline, Some(<<>>),
                             Metric("4.1 mi", 6670), Metric("8 min", 480))
NoStepsRoute == MakeRoute(MainPolyline, Null,
                          Metric("4.1 mi", 6670), Metric("8 min", 480))
NoPolylineRoute == MakeRoute(<<>>, Some(<<"Head east">>),
                             Metric("4.1 mi", 6670), Metric("8 min", 480))
NoDurationRoute == MakeRoute(MainPolyline, Some(<<"Head east">>),
                             Metric("4.1 mi", 6670), Null)
OnePointRoute == MakeRoute(OnePointPolyline, Some(<<"Arrive">>),
                           Metric("0 ft", 0), Metric("0 min", 0))

Loc(lat, lng) == [latitude |-> lat, longitude |-> lng]

SeqsUpTo(S, n) == UNION {[1..k -> S] : k \in 0..n}

----------------------------------------------------------------------------
(* The slice *)

Ran(name, arg, result) == [name |-> name, arg |-> arg, result |-> result]

\* what a reducer that logs no error and speaks nothing leaves behind
Silent(name) ==
    /\ op' = Ran(name, Null, "ok")
    /\ logged' = Null
    /\ spoken' = Null
    /\ UNCHANGED <<now, platformOS, tzHour, snapshotAt, spokeAt, args, returned>>
    /\ UNCHANGED <<screenVars, hostVars>>

\* a reducer other than setLoading and setHeading
Quiet(name) == Silent(name) /\ UNCHANGED <<loading, heading>>

initialState ==
    /\ currentLocation = Null
    /\ waypoints = <<>>
    /\ route = Null
    /\ alternativeRoutes = Null
    /\ selectedRouteIndex = 0
    /\ error = Null
    /\ speed = Null
    /\ currentEta = Null
    /\ lastEtaUpdate = 0
    /\ voiceEnabled = TRUE
    /\ updateFrequency = "normal"
    /\ isNavigationCardVisible = TRUE
    /\ cardState = "hidden"
    /\ lastRouteSwitch = 0
    /\ loading = FALSE
    /\ heading = Null

setCurrentLocation(payload) ==
    /\ currentLocation' = Some(payload)
    /\ Quiet("setCurrentLocation")
    /\ UNCHANGED <<waypoints, route, alternativeRoutes, selectedRouteIndex, error,
                   speed, currentEta, lastEtaUpdate, voiceEnabled, updateFrequency,
                   isNavigationCardVisible, cardState, lastRouteSwitch>>

\* Array.prototype.sort by order, stable: insert after the last entry whose
\* order is not greater (the list is kept sorted)
SortedInsert(ws, w) ==
    LET k == Cardinality({i \in 1..Len(ws) : ws[i].order <= w.order})
    IN  SubSeq(ws, 1, k) \o <<w>> \o SubSeq(ws, k + 1, Len(ws))

addWaypoint(payload) ==
    /\ waypoints' = SortedInsert(waypoints, payload)
    /\ Quiet("addWaypoint")
    /\ UNCHANGED <<currentLocation, route, alternativeRoutes, selectedRouteIndex,
                   error, speed, currentEta, lastEtaUpdate, voiceEnabled,
                   updateFrequency, isNavigationCardVisible, cardState,
                   lastRouteSwitch>>

\* filter(wp => wp.order !== payload), then order := index
RemoveAndReorder(ws, order) ==
    LET kept == SelectSeq(ws, LAMBDA w : w.order # order)
    IN  [i \in 1..Len(kept) |-> [kept[i] EXCEPT !.order = i - 1]]

\* removeWaypoint that keeps the route of the last waypoint it removes
removeWaypoint_KeepsRoute(payload) ==
    LET ws == RemoveAndReorder(waypoints, payload)
    IN  /\ waypoints' = ws
        /\ Quiet("removeWaypoint")
        /\ UNCHANGED <<currentLocation, route, alternativeRoutes,
                       selectedRouteIndex, error, speed, currentEta,
                       lastEtaUpdate, voiceEnabled, updateFrequency,
                       isNavigationCardVisible, cardState, lastRouteSwitch>>

removeWaypoint(payload) ==
    LET ws == RemoveAndReorder(waypoints, payload)
    IN  /\ waypoints' = ws
        /\ IF Len(ws) = 0
           THEN /\ route' = Null
                /\ alternativeRoutes' = Null
                /\ selectedRouteIndex' = 0
           ELSE UNCHANGED <<route, alternativeRoutes, selectedRouteIndex>>
        /\ Quiet("removeWaypoint")
        /\ UNCHANGED <<currentLocation, error, speed, currentEta, lastEtaUpdate,
                       voiceEnabled, updateFrequency, isNavigationCardVisible,
                       cardState, lastRouteSwitch>>

\* splice(from, 1), splice(to, 0, movedWaypoint), then order := index.  A
\* `from` past the end removes nothing: movedWaypoint is undefined, and the
\* entry spliced in spreads to {order: index} alone.
MoveAndReorder(ws, from, to) ==
    LET n    == Len(ws)
        rest == IF from < n
                THEN SubSeq(ws, 1, from) \o SubSeq(ws, from + 2, n)
                ELSE ws
        at   == IF to < Len(rest) THEN to ELSE Len(rest)
    IN  [i \in 1..(Len(rest) + 1) |->
            IF i <= at THEN [rest[i] EXCEPT !.order = i - 1]
            ELSE IF i = at + 1
                 THEN (IF from < n THEN [ws[from + 1] EXCEPT !.order = i - 1]
                       ELSE [order |-> i - 1])
                 ELSE [rest[i - 1] EXCEPT !.order = i - 1]]

\* payload: [from, to]
updateWaypointOrder(payload) ==
    /\ waypoints' = MoveAndReorder(waypoints, payload.from, payload.to)
    /\ Quiet("updateWaypointOrder")
    /\ UNCHANGED <<currentLocation, route, alternativeRoutes, selectedRouteIndex,
                   error, speed, currentEta, lastEtaUpdate, voiceEnabled,
                   updateFrequency, isNavigationCardVisible, cardState,
                   lastRouteSwitch>>

clearWaypoints ==
    /\ waypoints' = <<>>
    /\ route' = Null
    /\ alternativeRoutes' = Null
    /\ selectedRouteIndex' = 0
    /\ Quiet("clearWaypoints")
    /\ UNCHANGED <<currentLocation, error, speed, currentEta, lastEtaUpdate,
                   voiceEnabled, updateFrequency, isNavigationCardVisible,
                   cardState, lastRouteSwitch>>

\* payload: Null or <<Route>>
setRoute(payload) ==
    /\ route' = payload
    /\ selectedRouteIndex' = 0
    /\ IF payload # Null /\ payload[1].polyline # <<>> /\ payload[1].steps # Null
       THEN /\ isNavigationCardVisible' = TRUE
            /\ cardState' = "expanded"
       ELSE UNCHANGED <<isNavigationCardVisible, cardState>>
    /\ Quiet("setRoute")
    /\ UNCHANGED <<currentLocation, waypoints, alternativeRoutes, error, speed,
                   currentEta, lastEtaUpdate, voiceEnabled, updateFrequency,
                   lastRouteSwitch>>

\* payload: the array of routes
setAlternativeRoutes(payload) ==
    /\ alternativeRoutes' = Some(payload)
    /\ Quiet("setAlternativeRoutes")
    /\ UNCHANGED <<currentLocation, waypoints, route, selectedRouteIndex, error,
                   speed, currentEta, lastEtaUpdate, voiceEnabled, updateFrequency,
                   isNavigationCardVisible, cardState, lastRouteSwitch>>

\* [state.route, ...state.alternativeRoutes].filter(Boolean), or [state.route],
\* or []: a null route drops out, so the alternates move down one index
AvailableRoutes(r, alts) ==
    IF alts # Null THEN r \o alts[1] ELSE r

Has(metric) == metric # Null /\ metric[1].text # ""

\* SelectRejection without the check of the route metrics
SelectRejection_NoMetricsCheck(index, routes) ==
    IF index.kind = "nan" \/ index.v < 0
    THEN Some("Invalid route index")
    ELSE IF Len(routes) = 0
    THEN Some("No valid routes available")
    ELSE IF index.v >= Len(routes)
    THEN Some("Route index out of bounds")
    ELSE IF index.kind = "frac"
    THEN Some("Selected route is undefined")
    ELSE LET selectedRoute == routes[index.v + 1]
         IN  IF selectedRoute.polyline = <<>> \/ selectedRoute.steps = Null
             THEN Some("Invalid route data")
             ELSE Null

\* The console.error of the first validation that fails, Null when all pass.
\* index: [kind, v] = Number(action.payload)
SelectRejection(index, routes) ==
    IF index.kind = "nan" \/ index.v < 0
    THEN Some("Invalid route index")
    ELSE IF Len(routes) = 0
    THEN Some("No valid routes available")
    ELSE IF index.v >= Len(routes)
    THEN Some("Route index out of bounds")
    ELSE IF index.kind = "frac"
    THEN Some("Selected route is undefined")
    ELSE LET selectedRoute == routes[index.v + 1]
         IN  IF selectedRoute.polyline = <<>> \/ selectedRoute.steps = Null
             THEN Some("Invalid route data")
             ELSE IF ~Has(selectedRoute.distance) \/ ~Has(selectedRoute.duration)
             THEN Some("Invalid route metrics")
             ELSE Null

\* SwitchTo that forgets the time stamp
SwitchTo_NoStamp(index, t) ==
    /\ selectedRouteIndex' = index
    /\ UNCHANGED lastRouteSwitch

\* SwitchTo that stores a 1-based index
SwitchTo_OneBased(index, t) ==
    /\ selectedRouteIndex' = index + 1
    /\ lastRouteSwitch' = t

\* state.selectedRouteIndex = index; state.lastRouteSwitch = Date.now()
SwitchTo(index, t) ==
    /\ selectedRouteIndex' = index
    /\ lastRouteSwitch' = t

\* the reducer, but for what it leaves alone outside the store
SelectedRouteReducer(payload) ==
    LET rejection == SelectRejection(payload, AvailableRoutes(route, alternativeRoutes))
    IN  /\ IF rejection # Null
           THEN UNCHANGED <<selectedRouteIndex, lastRouteSwitch>>
           ELSE SwitchTo(payload.v, now)
        /\ op' = Ran("setSelectedRoute", Some(payload),
                     IF rejection = Null THEN "ok" ELSE "rejected")
        /\ logged' = rejection
        /\ spoken' = Null
        /\ UNCHANGED <<currentLocation, waypoints, route, alternativeRoutes, error,
                       speed, currentEta, lastEtaUpdate, voiceEnabled,
                       updateFrequency, isNavigationCardVisible, cardState, now,
                       platformOS, tzHour, snapshotAt, spokeAt, args, returned,
                       loading, heading>>
        /\ UNCHANGED screenVars

setSelectedRoute(payload) == SelectedRouteReducer(payload) /\ UNCHANGED hostVars

setLoading(payload) ==
    /\ loading' = payload
    /\ Silent("setLoading")
    /\ UNCHANGED <<currentLocation, waypoints, route, alternativeRoutes,
                   selectedRouteIndex, error, speed, currentEta, lastEtaUpdate,
                   voiceEnabled, updateFrequency, isNavigationCardVisible,
                   cardState, lastRouteSwitch, heading>>

\* payload: Null or <<degrees>>
setHeading(payload) ==
    /\ heading' = payload
    /\ Silent("setHeading")
    /\ UNCHANGED <<currentLocation, waypoints, route, alternativeRoutes,
                   selectedRouteIndex, error, speed, currentEta, lastEtaUpdate,
                   voiceEnabled, updateFrequency, isNavigationCardVisible,
                   cardState, lastRouteSwitch, loading>>

setError(payload) ==
    /\ error' = payload
    /\ Quiet("setError")
    /\ UNCHANGED <<currentLocation, waypoints, route, alternativeRoutes,
                   selectedRouteIndex, speed, currentEta, lastEtaUpdate,
                   voiceEnabled, updateFrequency, isNavigationCardVisible,
                   cardState, lastRouteSwitch>>

\* payload: Null or <<number>>
setSpeed(payload) ==
    /\ speed' = payload
    /\ Quiet("setSpeed")
    /\ UNCHANGED <<currentLocation, waypoints, route, alternativeRoutes,
                   selectedRouteIndex, error, currentEta, lastEtaUpdate,
                   voiceEnabled, updateFrequency, isNavigationCardVisible,
                   cardState, lastRouteSwitch>>

clearNavigation ==
    /\ waypoints' = <<>>
    /\ route' = Null
    /\ alternativeRoutes' = Null
    /\ selectedRouteIndex' = 0
    /\ error' = Null
    /\ Quiet("clearNavigation")
    /\ UNCHANGED <<currentLocation, speed, currentEta, lastEtaUpdate, voiceEnabled,
                   updateFrequency, isNavigationCardVisible, cardState,
                   lastRouteSwitch>>

setCurrentEta(payload) ==
    /\ currentEta' = Some(payload)
    /\ lastEtaUpdate' = now
    /\ Quiet("setCurrentEta")
    /\ UNCHANGED <<currentLocation, waypoints, route, alternativeRoutes,
                   selectedRouteIndex, error, speed, voiceEnabled, updateFrequency,
                   isNavigationCardVisible, cardState, lastRouteSwitch>>

setVoiceEnabled(payload) ==
    /\ voiceEnabled' = payload
    /\ Quiet("setVoiceEnabled")
    /\ UNCHANGED <<currentLocation, waypoints, route, alternativeRoutes,
                   selectedRouteIndex, error, speed, currentEta, lastEtaUpdate,
                   updateFrequency, isNavigationCardVisible, cardState,
                   lastRouteSwitch>>

setUpdateFrequency(payload) ==
    /\ updateFrequency' = payload
    /\ Quiet("setUpdateFrequency")
    /\ UNCHANGED <<currentLocation, waypoints, route, alternativeRoutes,
                   selectedRouteIndex, error, speed, currentEta, lastEtaUpdate,
                   voiceEnabled, isNavigationCardVisible, cardState,
                   lastRouteSwitch>>

\* !state.speed
Falsy(num) == num = Null \/ num[1] = 0

\* updateInterval with the frequent cadence in both modes
updateInterval_AlwaysFrequent(frequency) == 10000

updateInterval(frequency) == IF frequency = "frequent" THEN 10000 ELSE 30000

\* speedMph = speed * 2.237; (remainingDistance / speedMph) * 3600, as
\* remainingDistance * 3600000 / (speed * 2237) by long division, truncated
BaseTimeSeconds(remainingDistance, spd) ==
    LET d == Abs(spd) * 2237
        n == remainingDistance * 3600
        q == (n \div d) * 1000 + ((n % d) * 1000) \div d
    IN  IF spd < 0 THEN -q ELSE q

\* EtaFrom that announces with the voice switched off too
EtaFrom_IgnoresVoiceSwitch(st, t) ==
    LET trafficDelay == getTrafficDelay(st.remainingDistance, t)
        totalTimeSeconds ==
            BaseTimeSeconds(st.remainingDistance, speed[1]) + trafficDelay
        etaTimestamp == t + totalTimeSeconds * 1000
        newEta ==
            [timestamp             |-> etaTimestamp,
             text                  |-> formatEta(etaTimestamp, trafficDelay, t),
             value                 |-> totalTimeSeconds,
             trafficDelay          |-> trafficDelay,
             isOffRoute            |-> st.isOffRoute,
             distanceToRoute       |-> st.distanceToRoute,
             lastVoiceAnnouncement |->
                 IF currentEta = Null THEN Null
                 ELSE currentEta[1].lastVoiceAnnouncement]
        announce == shouldAnnounceEta(currentEta, newEta, t)
    IN  [eta |-> IF announce
                 THEN [newEta EXCEPT !.lastVoiceAnnouncement = Some(t)]
                 ELSE newEta,
         frequency |-> IF st.remainingDistance < FREQUENT_UPDATE_DISTANCE
                       THEN "frequent" ELSE updateFrequency,
         spoken |-> IF announce
                    THEN announceEta(newEta, newEta.isOffRoute)
                    ELSE Null]

\* updateEta from line 307 on, with the route status st in hand
EtaFrom(st, t) ==
    LET trafficDelay == getTrafficDelay(st.remainingDistance, t)
        totalTimeSeconds ==
            BaseTimeSeconds(st.remainingDistance, speed[1]) + trafficDelay
        etaTimestamp == t + totalTimeSeconds * 1000
        newEta ==
            [timestamp             |-> etaTimestamp,
             text                  |-> formatEta(etaTimestamp, trafficDelay, t),
             value                 |-> totalTimeSeconds,
             trafficDelay          |-> trafficDelay,
             isOffRoute            |-> st.isOffRoute,
             distanceToRoute       |-> st.distanceToRoute,
             lastVoiceAnnouncement |->
                 IF currentEta = Null THEN Null
                 ELSE currentEta[1].lastVoiceAnnouncement]
        announce == voiceEnabled /\ shouldAnnounceEta(currentEta, newEta, t)
    IN  [eta |-> IF announce
                 THEN [newEta EXCEPT !.lastVoiceAnnouncement = Some(t)]
                 ELSE newEta,
         frequency |-> IF st.remainingDistance < FREQUENT_UPDATE_DISTANCE
                       THEN "frequent" ELSE updateFrequency,
         spoken |-> IF announce
                    THEN announceEta(newEta, newEta.isOffRoute)
                    ELSE Null]

\* The body of updateEta at time t: Null when it returns early, else the new
\* snapshot, the update frequency it leaves and what it speaks.
EtaUpdate(t) ==
    IF route = Null \/ currentLocation = Null \/ Falsy(speed) THEN Null
    ELSE IF t - lastEtaUpdate < updateInterval(updateFrequency) THEN Null
    ELSE CHOOSE out \in
           {IF routeStatus = Null THEN Null ELSE Some(EtaFrom(routeStatus[1], t)) :
              routeStatus \in {calculateRouteStatus(currentLocation[1],
                                                    route[1].polyline)}} : TRUE

\* the reducer; by: Null, or who dispatched it
updateEtaBy(by) ==
    \E out \in {EtaUpdate(now)} :
        /\ IF out = Null
           THEN /\ UNCHANGED <<currentEta, lastEtaUpdate, updateFrequency,
                              snapshotAt, spokeAt>>
                /\ spoken' = Null
           ELSE /\ currentEta' = Some(out[1].eta)
                /\ lastEtaUpdate' = now
                /\ snapshotAt' = Some(now)
                /\ updateFrequency' = out[1].frequency
                /\ spoken' = out[1].spoken
                /\ spokeAt' = IF out[1].spoken # Null THEN Some(now) ELSE spokeAt
        /\ op' = Ran("updateEta", by, IF out = Null THEN "skipped" ELSE "snapshot")
        /\ logged' = Null
        /\ UNCHANGED <<currentLocation, waypoints, route, alternativeRoutes,
                       selectedRouteIndex, error, speed, voiceEnabled,
                       isNavigationCardVisible, cardState, lastRouteSwitch, now,
                       platformOS, tzHour, args, returned, loading, heading>>

updateEta == updateEtaBy(Null) /\ UNCHANGED <<screenVars, hostVars>>

setNavigationCardVisible(payload) ==
    /\ isNavigationCardVisible' = payload
    /\ cardState' = IF payload THEN "expanded" ELSE "hidden"
    /\ Quiet("setNavigationCardVisible")
    /\ UNCHANGED <<currentLocation, waypoints, route, alternativeRoutes,
                   selectedRouteIndex, error, speed, currentEta, lastEtaUpdate,
                   voiceEnabled, updateFrequency, lastRouteSwitch>>

setCardState(payload) ==
    /\ cardState' = payload
    /\ isNavigationCardVisible' = (payload # "hidden")
    /\ Quiet("setCardState")
    /\ UNCHANGED <<currentLocation, waypoints, route, alternativeRoutes,
                   selectedRouteIndex, error, speed, currentEta, lastEtaUpdate,
                   voiceEnabled, updateFrequency, lastRouteSwitch>>

----------------------------------------------------------------------------
(* The clock *)

\* Date.now() moves on by d ms between two dispatches
Tick(d, horizon) ==
    /\ now + d <= StartTime + horizon
    /\ now' = now + d
    /\ op' = Ran("tick", Null, "ok")
    /\ logged' = Null
    /\ spoken' = Null
    /\ UNCHANGED sliceVars
    /\ UNCHANGED <<platformOS, tzHour, snapshotAt, spokeAt, args, returned>>
    /\ UNCHANGED <<screenVars, hostVars>>

\* The screen has rendered once and none of its effects has run: nothing is
\* cached, no call is pending, the refs are null.
effectsInit ==
    /\ cacheLoads = {}
    /\ cacheEffectDeps = Null
    /\ fetches = {}
    /\ fetchEffectDeps = Null
    /\ locationPermission = TRUE
    /\ locationMounted = TRUE
    /\ setupStage = "idle"
    /\ locationSubscription = Null
    /\ headingSubscription = Null
    /\ positionWatch = "none"
    /\ headingWatch = "none"
    /\ lastLocation = Null
    /\ placeLookups = {}
    /\ retries = {}
    /\ routeSwitch = Null

hostInit == cache = Null /\ effectsInit

Init ==
    /\ initialState
    /\ now = StartTime
    /\ platformOS \in {"ios", "web"}
    /\ tzHour \in {0, 8}
    /\ op = Ran("init", Null, "ok")
    /\ logged = Null
    /\ spoken = Null
    /\ snapshotAt = Null
    /\ spokeAt = Null
    /\ args = Null
    /\ returned = Null
    /\ etaUpdateInterval = Null
    /\ etaEffectDeps = Null
    /\ speedEffectDeps = Null
    /\ hostInit

----------------------------------------------------------------------------
(* The route catalog: every reducer that writes route, alternativeRoutes or  *)
(* selectedRouteIndex, dispatched in any order, 200 or 500 ms apart.         *)

\* how long the catalog runs last, ms
CatalogHorizon == 500

CatalogPrimaries == {MainRoute, NoStepsRoute, NoPolylineRoute, NoDurationRoute}
CatalogAlternates == {AltRoute, EmptyStepsRoute}
\* Number(action.payload) for the payloads -1, 0, 0.5, 1, 2, 3 and NaN
IndexPayloads == {Num(-1), Num(0), Frac(0), Num(1), Num(2), Num(3), NaN}

InitCatalog == Init /\ platformOS = "ios" /\ tzHour = 0

NextCatalog ==
    \/ \E r \in {Null} \cup {Some(x) : x \in CatalogPrimaries} : setRoute(r)
    \/ \E rs \in SeqsUpTo(CatalogAlternates, MaxAlternatives) : setAlternativeRoutes(rs)
    \/ \E i \in IndexPayloads : setSelectedRoute(i)
    \/ /\ Len(waypoints) < MaxWaypoints
       /\ addWaypoint([name |-> "A", order |-> Len(waypoints)])
    \/ \E k \in 0..(MaxWaypoints - 1) : removeWaypoint(k)
    \/ clearWaypoints
    \/ clearNavigation
    \/ \E d \in {200, 500} : Tick(d, CatalogHorizon)

SpecCatalog == InitCatalog /\ [][NextCatalog]_vars

----------------------------------------------------------------------------
(* ETA tracking: a fix, a speed and a route arrive, and updateEta is         *)
(* dispatched by the 30 s timer and by the effects, 10 to 30 s apart.        *)

\* how long the ETA runs last, ms
EtaHorizon == 40000

\* at the route's start; 556 m north of the route's second vertex, which is
\* the alternate's second vertex
Fixes == {Loc(0, 0), Loc(500, 3000)}
Speeds == {Null, Some(0), Some(-10), Some(10)}

\* a snapshot as a caller of setCurrentEta would hand it over
SampleEta ==
    [timestamp |-> StartTime + 600000,
     text |-> [arriving |-> "min", hours |-> 0, minutes |-> 10, delayMinutes |-> 0],
     value |-> 600, trafficDelay |-> 0, isOffRoute |-> FALSE,
     distanceToRoute |-> 0, lastVoiceAnnouncement |-> Null]

InitEta == Init /\ platformOS = "ios" /\ tzHour = 0

Next ==
    \/ \E l \in Fixes : setCurrentLocation(l)
    \/ \E s \in Speeds : setSpeed(s)
    \/ \E r \in {MainRoute, OnePointRoute} : setRoute(Some(r))
    \/ \E f \in {"normal", "frequent"} : setUpdateFrequency(f)
    \/ setCurrentEta(SampleEta)
    \/ updateEta
    \/ clearNavigation
    \/ \E d \in {10000, 30000} : Tick(d, EtaHorizon)

Spec == InitEta /\ [][Next]_vars

----------------------------------------------------------------------------
(* ETA tracking with alternates: the user picks a route of the catalog while *)
(* moving at 10 m/s.                                                         *)

NextTracker ==
    \/ \E l \in Fixes : setCurrentLocation(l)
    \/ setSpeed(Some(10))
    \/ setRoute(Some(MainRoute))
    \/ setAlternativeRoutes(<<AltRoute>>)
    \/ \E i \in {Num(0), Num(1)} : setSelectedRoute(i)
    \/ updateEta
    \/ \E d \in {10000, 30000} : Tick(d, EtaHorizon)

SpecTracker == InitEta /\ [][NextTracker]_vars

----------------------------------------------------------------------------
(* Voice guidance: location fixes that carry a speed, a short and a long     *)
(* route, the voice switch, and updateEta 30 to 60 s apart, at midnight or   *)
(* in the morning rush hour, on a phone or on the web.                       *)

\* how long the voice runs last, ms
VoiceHorizon == 90000

\* "???_ry@_ry@??~qy@": (0,0) (0,0.3) (0.3,0.3) (0.3,0), three legs of 33357 m
LongPolyline ==
    <<63, 63, 63, 95, 114, 121, 64, 95, 114, 121, 64, 63, 63, 126, 113, 121, 64>>
LongRoute == MakeRoute(LongPolyline, Some(<<"Head east">>),
                       Metric("62 mi", 100071), Metric("1 hour 10 min", 4200))

\* a Location as useLocation builds it, with the fix's own speed
Fix(lat, lng, spd) == [latitude |-> lat, longitude |-> lng, speed |-> spd]

\* at the start of both routes; 555 m north of it
VoiceFixes == {Fix(0, 0, 10), Fix(500, 0, 10)}

NextVoice ==
    \/ \E l \in VoiceFixes : setCurrentLocation(l)
    \/ setSpeed(Some(80))
    \/ \E r \in {MainRoute, LongRoute} : setRoute(Some(r))
    \/ \E b \in BOOLEAN : setVoiceEnabled(b)
    \/ setCurrentEta(SampleEta)
    \/ updateEta
    \/ \E d \in {30000, 60000} : Tick(d, VoiceHorizon)

SpecVoice == Init /\ [][NextVoice]_vars

----------------------------------------------------------------------------
(* The announcement policy on its own: shouldAnnounceEta and announceEta are *)
(* applied to a previous and a next snapshot as updateEta hands them over.   *)

\* a snapshot due in value seconds
Snapshot(value, trafficDelay, isOffRoute, lastVoiceAnnouncement) ==
    [timestamp             |-> StartTime + value * 1000,
     text                  |-> formatEta(StartTime + value * 1000, trafficDelay,
                                         StartTime),
     value                 |-> value,
     trafficDelay          |-> trafficDelay,
     isOffRoute            |-> isOffRoute,
     distanceToRoute       |-> IF isOffRoute THEN 555 ELSE 0,
     lastVoiceAnnouncement |-> lastVoiceAnnouncement]

\* never announced; announced one millisecond less than the interval ago;
\* announced the interval ago
PreviousStamps ==
    {Null, Some(StartTime - VOICE_ANNOUNCEMENT_INTERVAL + 1),
     Some(StartTime - VOICE_ANNOUNCEMENT_INTERVAL)}

\* the ETA of the next snapshot, and ETAs 0, 300 and 301 s from it
NextValue == 1000
PreviousValues == {NextValue, NextValue + 300, NextValue + 301}
\* no delay, and delays 301 s apart
TrafficDelays == {0, 100, 401}

PreviousSnapshots ==
    {Snapshot(v, d, off, stamp) : v \in PreviousValues, d \in TrafficDelays,
                                  off \in BOOLEAN, stamp \in PreviousStamps}

\* <<value, trafficDelay>> on both sides of every limit of the text: half a
\* minute, an hour, five minutes of delay
SpokenCases ==
    {<<0, 0>>, <<29, 0>>, <<30, 0>>, <<3569, 0>>, <<3570, 0>>, <<7290, 0>>,
     <<3569, 300>>, <<3569, 301>>, <<7290, 300>>, <<7290, 450>>}

PolicyCalls ==
    {[current |-> Some(previous),
      newEta  |-> Snapshot(NextValue, d, off, previous.lastVoiceAnnouncement)] :
        previous \in PreviousSnapshots, d \in TrafficDelays, off \in BOOLEAN}
    \cup {[current |-> Null, newEta |-> Snapshot(c[1], c[2], off, Null)] :
             c \in SpokenCases, off \in BOOLEAN}

InitPolicy ==
    /\ initialState
    /\ now = StartTime
    /\ platformOS \in {"ios", "web"}
    /\ tzHour = 0
    /\ op = Ran("init", Null, "ok")
    /\ logged = Null
    /\ spoken = Null
    /\ snapshotAt = Null
    /\ spokeAt = Null
    /\ args \in PolicyCalls
    /\ returned = Null
    /\ etaUpdateInterval = Null
    /\ etaEffectDeps = Null
    /\ speedEffectDeps = Null
    /\ hostInit

\* shouldAnnounceEta(state.currentEta, newEta)
CallShouldAnnounceEta ==
    /\ op.name = "init"
    /\ returned' = Some(shouldAnnounceEta(args.current, args.newEta, now))
    /\ op' = Ran("shouldAnnounceEta", Null, "ok")
    /\ UNCHANGED sliceVars
    /\ UNCHANGED <<now, platformOS, tzHour, logged, spoken, snapshotAt, spokeAt, args>>
    /\ UNCHANGED <<screenVars, hostVars>>

\* announceEta(newEta, newEta.isOffRoute)
CallAnnounceEta ==
    /\ op.name = "init"
    /\ spoken' = announceEta(args.newEta, args.newEta.isOffRoute)
    /\ op' = Ran("announceEta", Null, "ok")
    /\ UNCHANGED sliceVars
    /\ UNCHANGED <<now, platformOS, tzHour, logged, snapshotAt, spokeAt, args,
                   returned>>
    /\ UNCHANGED <<screenVars, hostVars>>

NextPolicy ==
    \/ CallShouldAnnounceEta
    \/ CallAnnounceEta

SpecPolicy == InitPolicy /\ [][NextPolicy]_vars

----------------------------------------------------------------------------
(* NavigationScreen: the two effects that dispatch updateEta and the 30 s     *)
(* timer of the first.  An effect runs after a render in which one of its    *)
(* dependencies changed; the ETA effect is declared first and runs first.    *)

\* the period of setInterval, ms
EtaTimerPeriod == 30000

\* how long the screen's runs last, ms
ScreenHorizon == 60000

\* [route, currentLocation]
EtaEffectDepsNow == [route |-> route, currentLocation |-> currentLocation]

\* currentLocation?.speed
SpeedOf(loc) == IF loc = Null THEN Null ELSE Some(loc[1].speed)

\* [currentLocation?.speed, route]
SpeedEffectDepsNow == [speed |-> SpeedOf(currentLocation), route |-> route]

\* an effect ran and dispatched nothing
Idle(name) ==
    /\ op' = Ran(name, Null, "idle")
    /\ logged' = Null
    /\ spoken' = Null
    /\ UNCHANGED sliceVars
    /\ UNCHANGED <<now, platformOS, tzHour, snapshotAt, spokeAt, args, returned>>

\* EtaEffect whose clean-up leaves the timer running
EtaEffect_NoCleanup ==
    /\ etaEffectDeps # Some(EtaEffectDepsNow)
    /\ etaEffectDeps' = Some(EtaEffectDepsNow)
    /\ IF route # Null /\ currentLocation # Null
       THEN /\ updateEtaBy(Some("effect"))
            /\ etaUpdateInterval' = Some(now)
       ELSE /\ UNCHANGED etaUpdateInterval
            /\ Idle("etaEffect")
    /\ UNCHANGED speedEffectDeps
    /\ UNCHANGED hostVars

\* The clean-up of the run before (clearInterval, returned only by a run that
\* set the timer), then the body: with a route and a location, one dispatch
\* and a new timer.
EtaEffect ==
    /\ etaEffectDeps # Some(EtaEffectDepsNow)
    /\ etaEffectDeps' = Some(EtaEffectDepsNow)
    /\ IF route # Null /\ currentLocation # Null
       THEN /\ updateEtaBy(Some("effect"))
            /\ etaUpdateInterval' = Some(now)
       ELSE /\ etaUpdateInterval' = Null
            /\ Idle("etaEffect")
    /\ UNCHANGED speedEffectDeps
    /\ UNCHANGED hostVars

SpeedEffect ==
    /\ etaEffectDeps = Some(EtaEffectDepsNow)
    /\ speedEffectDeps # Some(SpeedEffectDepsNow)
    /\ speedEffectDeps' = Some(SpeedEffectDepsNow)
    /\ IF route # Null /\ currentLocation # Null
       THEN updateEtaBy(Some("effect"))
       ELSE Idle("speedEffect")
    /\ UNCHANGED <<etaUpdateInterval, etaEffectDeps>>
    /\ UNCHANGED hostVars

\* the timer's callback, each period after the timer was set
EtaTimer ==
    /\ etaUpdateInterval # Null
    /\ now - etaUpdateInterval[1] >= EtaTimerPeriod
    /\ etaUpdateInterval' = Some(etaUpdateInterval[1] + EtaTimerPeriod)
    /\ updateEtaBy(Some("interval"))
    /\ UNCHANGED <<etaEffectDeps, speedEffectDeps>>
    /\ UNCHANGED hostVars

\* at the route's start at 10 m/s; at its second vertex at 12 m/s
ScreenFixes == {Fix(0, 0, 10), Fix(0, 3000, 12)}

NextScreen ==
    \/ \E l \in ScreenFixes : setCurrentLocation(l)
    \/ setSpeed(Some(10))
    \/ setRoute(Some(MainRoute))
    \/ /\ Len(waypoints) < MaxWaypoints
       /\ addWaypoint([name |-> "A", order |-> Len(waypoints)])
    \/ \E k \in 0..(MaxWaypoints - 1) : removeWaypoint(k)
    \/ clearWaypoints
    \/ clearNavigation
    \/ EtaEffect
    \/ SpeedEffect
    \/ EtaTimer
    \/ Tick(EtaTimerPeriod, ScreenHorizon)

SpecScreen == InitEta /\ [][NextScreen]_vars

----------------------------------------------------------------------------
(* The decoder on its own: decodePolyline is applied to every short string   *)
(* over four characters and to every prefix of the routes' polylines.        *)

\* the longest string of the exhaustive inputs
MaxEncodedLen == 4

\* '?' and '@': the last chunk of a value, bits 0 and 1; '_' and '`': a chunk
\* with more to follow, bits 0 and 1
CodecAlphabet == {63, 64, 95, 96}

\* "_p~iF~ps|U_ulLnnqC_mqNvxq`@", the polyline of the slice's tests:
\* (38.5,-120.2) (40.7,-120.95) (43.252,-126.453)
ReferencePolyline ==
    <<95, 112, 126, 105, 70, 126, 112, 115, 124, 85, 95, 117, 108, 76, 110, 110,
      113, 67, 95, 109, 113, 78, 118, 120, 113, 96, 64>>
\* "??_____@?~~~~^A": (0,0), then latitude 167.77216, out of range, then
\* (0,0.00001)
OutOfRangePolyline ==
    <<63, 63, 95, 95, 95, 95, 95, 64, 63, 126, 126, 126, 126, 94, 65>>

Prefixes(str) == {SubSeq(str, 1, k) : k \in 0..Len(str)}

\* "" stands for null as well: both are falsy to `!encoded`
EncodedInputs ==
    SeqsUpTo(CodecAlphabet, MaxEncodedLen)
    \cup Prefixes(MainPolyline) \cup Prefixes(AltPolyline)
    \cup Prefixes(ReferencePolyline) \cup Prefixes(OutOfRangePolyline)

InitCodec ==
    /\ initialState
    /\ now = StartTime
    /\ platformOS = "ios"
    /\ tzHour = 0
    /\ op = Ran("init", Null, "ok")
    /\ logged = Null
    /\ spoken = Null
    /\ snapshotAt = Null
    /\ spokeAt = Null
    /\ args \in {[encoded |-> e] : e \in EncodedInputs}
    /\ returned = Null
    /\ etaUpdateInterval = Null
    /\ etaEffectDeps = Null
    /\ speedEffectDeps = Null
    /\ hostInit

\* decodePolyline(encoded)
CallDecodePolyline ==
    /\ op.name = "init"
    /\ returned' = Some(decodePolyline(args.encoded))
    /\ op' = Ran("decodePolyline", Null, "ok")
    /\ UNCHANGED sliceVars
    /\ UNCHANGED <<now, platformOS, tzHour, logged, spoken, snapshotAt, spokeAt, args>>
    /\ UNCHANGED <<screenVars, hostVars>>

NextCodec == CallDecodePolyline

SpecCodec == InitCodec /\ [][NextCodec]_vars

----------------------------------------------------------------------------
(* The round trip: a path is encoded, and the string is handed to            *)
(* decodePolyline.                                                           *)

\* the longest path
MaxPathLen == 3

\* the corners of the valid range, the origin, a point one grid step from it
\* and the first point of the tests' polyline
GridPoints ==
    {Loc(0, 0), Loc(1, -1), Loc(9000000, 18000000), Loc(-9000000, -18000000),
     Loc(3850000, -12020000)}

InitRoundTrip ==
    /\ initialState
    /\ now = StartTime
    /\ platformOS = "ios"
    /\ tzHour = 0
    /\ op = Ran("init", Null, "ok")
    /\ logged = Null
    /\ spoken = Null
    /\ snapshotAt = Null
    /\ spokeAt = Null
    /\ args \in {[path |-> p, encoded |-> Null] : p \in SeqsUpTo(GridPoints, MaxPathLen)}
    /\ returned = Null
    /\ etaUpdateInterval = Null
    /\ etaEffectDeps = Null
    /\ speedEffectDeps = Null
    /\ hostInit

\* encoded = encode(path)
CallEncode ==
    /\ op.name = "init"
    /\ \E e \in {encode(args.path)} : args' = [args EXCEPT !.encoded = e]
    /\ op' = Ran("encode", Null, "ok")
    /\ UNCHANGED sliceVars
    /\ UNCHANGED <<now, platformOS, tzHour, logged, spoken, snapshotAt, spokeAt, returned>>
    /\ UNCHANGED <<screenVars, hostVars>>

\* decodePolyline(encoded) on the string just produced
CallDecodeEncoded ==
    /\ op.name = "encode"
    /\ returned' = Some(decodePolyline(args.encoded))
    /\ op' = Ran("decodePolyline", Null, "ok")
    /\ UNCHANGED sliceVars
    /\ UNCHANGED <<now, platformOS, tzHour, logged, spoken, snapshotAt, spokeAt, args>>
    /\ UNCHANGED <<screenVars, hostVars>>

NextRoundTrip == CallEncode \/ CallDecodeEncoded

SpecRoundTrip == InitRoundTrip /\ [][NextRoundTrip]_vars

----------------------------------------------------------------------------
(* Properties of the route catalog *)

AlternateCount == IF alternativeRoutes = Null THEN 0 ELSE Len(alternativeRoutes[1])

\* the last reducer was setSelectedRoute
Selecting(o) == o.name = "setSelectedRoute"
\* the index it was given
IndexOf(o) == o.arg[1]

\* the route a select of index targets, Null when there is none
TargetOf(index) ==
    LET routes == AvailableRoutes(route, alternativeRoutes)
    IN  IF index.kind = "num" /\ index.v >= 0 /\ index.v < Len(routes)
        THEN Some(routes[index.v + 1]) ELSE Null

\* a validation fails: the index is negative or NaN, is at or past the route
\* count, or the target misses its polyline, steps, distance or duration text
FailsValidation(index) ==
    \/ index.kind = "nan"
    \/ index.v < 0
    \/ index.v >= Len(AvailableRoutes(route, alternativeRoutes))
    \/ /\ TargetOf(index) # Null
       /\ LET target == TargetOf(index)[1]
          IN  \/ target.polyline = <<>>
              \/ target.steps = Null
              \/ ~Has(target.distance)
              \/ ~Has(target.duration)

PassesValidation(index) == index.kind = "num" /\ ~FailsValidation(index)

\* C1: in every reachable state 0 <= selectedRouteIndex < 1 + |alternativeRoutes|
\* (no alternates when alternativeRoutes is null).
C1_CatalogInvariant ==
    selectedRouteIndex >= 0 /\ selectedRouteIndex < 1 + AlternateCount

C3_SelectWithinDebounceIgnored ==
    [][(/\ Selecting(op')
        /\ lastRouteSwitch > 0
        /\ now < lastRouteSwitch + ROUTE_SWITCH_DEBOUNCE)
       => UNCHANGED <<selectedRouteIndex, lastRouteSwitch>>]_vars

\* C4: a select that targets a route whose path has no coordinates or whose
\* step list is empty is rejected and the index keeps its value.
C4_EmptyRouteNeverSelected ==
    [][(/\ Selecting(op')
        /\ TargetOf(IndexOf(op')) # Null
        /\ LET target == TargetOf(IndexOf(op'))[1]
           IN  \/ decodePolyline(target.polyline) = <<>>
               \/ target.steps \in {Null, Some(<<>>)})
       => (op'.result = "rejected" /\ UNCHANGED selectedRouteIndex)]_vars

\* C5: a setSelectedRoute(index) that passes every validation sets
\* selectedRouteIndex to index and lastRouteSwitch to the time of the call, and
\* changes no other field.
C5_AcceptedSelectEffect ==
    [][(Selecting(op') /\ PassesValidation(IndexOf(op')))
       => /\ selectedRouteIndex' = IndexOf(op').v
          /\ lastRouteSwitch' = now
          /\ UNCHANGED <<currentLocation, waypoints, route, alternativeRoutes,
                         error, speed, currentEta, lastEtaUpdate, voiceEnabled,
                         updateFrequency, isNavigationCardVisible, cardState>>]_vars

\* the first alternate was selected some time after start-up
C5_Witness ==
    /\ op = Ran("setSelectedRoute", Some(Num(1)), "ok")
    /\ selectedRouteIndex = 1
    /\ now > StartTime
    /\ lastRouteSwitch = now

----------------------------------------------------------------------------
(* Properties of the ETA update *)

\* the last reducer was updateEta
Updating(o) == o.name = "updateEta"

\* the cadence of a mode, as specified
Cadence(mode) == IF mode = "normal" THEN 30000 ELSE 10000

\* C7: a snapshot that updateEta stores is computed from the path of the
\* catalog entry at selectedRouteIndex.
C7_EtaTracksSelectedRoute ==
    (Updating(op) /\ op.result = "snapshot" /\ TargetOf(Num(selectedRouteIndex)) # Null)
        => LET target == TargetOf(Num(selectedRouteIndex))[1]
               status == calculateRouteStatus(currentLocation[1], target.polyline)
           IN  /\ status # Null
               /\ currentEta[1].isOffRoute = status[1].isOffRoute
               /\ currentEta[1].distanceToRoute = status[1].distanceToRoute

\* C8: an updateEta dispatched before the cadence of the mode in force has
\* passed since lastEtaUpdate stores no snapshot, and a snapshot that updateEta
\* stores comes at least that cadence after the one it stored before.
C8_CadenceGate ==
    [][Updating(op')
       => /\ (now - lastEtaUpdate < Cadence(updateFrequency))
                 => (op'.result = "skipped" /\ UNCHANGED <<currentEta, lastEtaUpdate>>)
          /\ (op'.result = "snapshot" /\ snapshotAt # Null)
                 => now - snapshotAt[1] >= Cadence(updateFrequency)]_vars

\* an update 10 s after a snapshot was skipped in normal mode, everything else
\* being there
C8_Witness ==
    /\ Updating(op) /\ op.result = "skipped"
    /\ route = Some(MainRoute) /\ currentLocation # Null /\ ~Falsy(speed)
    /\ updateFrequency = "normal"
    /\ snapshotAt # Null
    /\ now - lastEtaUpdate = 10000

\* C9: with a speed that is null, zero or negative updateEta stores no
\* snapshot, and no stored snapshot has a negative value or timestamp.
C9_NoSnapshotWithoutSpeed ==
    /\ (Updating(op) /\ (speed = Null \/ speed[1] <= 0)) => op.result = "skipped"
    /\ currentEta # Null => (currentEta[1].value >= 0 /\ currentEta[1].timestamp >= 0)

\* a cycle is skipped: the cadence has not passed, the route's path has fewer
\* than two coordinates, or the speed is unknown or zero
SkippedCycle ==
    \/ now - lastEtaUpdate < Cadence(updateFrequency)
    \/ route # Null /\ Len(decodePolyline(route[1].polyline)) < 2
    \/ Falsy(speed)

\* C10: a skipped cycle leaves currentEta and lastEtaUpdate as they were, speaks
\* nothing and reports no error.
C10_SkippedCycleChangesNothing ==
    [][(Updating(op') /\ SkippedCycle)
       => /\ UNCHANGED <<currentEta, lastEtaUpdate>>
          /\ spoken' = Null
          /\ logged' = Null]_vars

\* an update on a one-point route was skipped although the cadence had passed
\* and the speed was known
C10_Witness ==
    /\ Updating(op) /\ op.result = "skipped"
    /\ route = Some(OnePointRoute) /\ currentLocation # Null /\ ~Falsy(speed)
    /\ currentEta # Null
    /\ now - lastEtaUpdate >= Cadence(updateFrequency)

\* C11: once updateFrequency is 'frequent' it is 'frequent' in every later
\* state, and it becomes 'frequent' only in an updateEta that stores a snapshot
\* with less than 5000 m of the route remaining.
C11_FrequencyOneWay ==
    [][/\ updateFrequency = "frequent" => updateFrequency' = "frequent"
       /\ (updateFrequency = "normal" /\ updateFrequency' = "frequent")
              => /\ Updating(op') /\ op'.result = "snapshot"
                 /\ LET status == calculateRouteStatus(currentLocation[1],
                                                       route[1].polyline)
                    IN  status[1].remainingDistance < FREQUENT_UPDATE_DISTANCE]_vars

----------------------------------------------------------------------------
(* Properties of the announcements *)

\* when the announcement that a snapshot remembers was made, Null for none
StampOf(eta) == IF eta = Null THEN Null ELSE eta[1].lastVoiceAnnouncement

\* C12: an announcement is spoken at least 60000 ms after the one spoken
\* before it, and an updateEta whose previous snapshot was announced less than
\* 60000 ms ago speaks nothing and keeps that snapshot's lastVoiceAnnouncement.
C12_AnnouncementFloor ==
    [][Updating(op')
       => /\ (spoken' # Null /\ spokeAt # Null)
                 => now - spokeAt[1] >= VOICE_ANNOUNCEMENT_INTERVAL
          /\ (/\ StampOf(currentEta) # Null
              /\ now - StampOf(currentEta)[1] < VOICE_ANNOUNCEMENT_INTERVAL)
                 => /\ spoken' = Null
                    /\ op'.result = "snapshot"
                           => StampOf(currentEta') = StampOf(currentEta)]_vars

\* Speech.speak speaks on these platforms only
Speaks == platformOS \in {"ios", "android"}

\* C13: the first snapshot (currentEta was null) is announced whenever voice is
\* enabled, whatever the snapshot is: it carries the time of the call as its
\* lastVoiceAnnouncement, and on a phone the announcement is spoken.
C13_FirstSnapshotAnnounced ==
    [][(Updating(op') /\ op'.result = "snapshot" /\ currentEta = Null /\ voiceEnabled)
       => /\ StampOf(currentEta') = Some(now)
          /\ Speaks => (spoken' # Null /\ spokeAt' = Some(now))]_vars

\* the first snapshot, on the route and outside the rush hour, was spoken: no
\* later snapshot comes at start-up, when the cadence since any earlier one
\* has not passed
C13_Witness ==
    /\ Updating(op) /\ op.result = "snapshot"
    /\ now = StartTime
    /\ ~currentEta[1].isOffRoute /\ currentEta[1].trafficDelay = 0
    /\ StampOf(currentEta) = Some(now)
    /\ spoken # Null /\ spoken[1].say = "hours"

\* the last call was shouldAnnounceEta with a previous snapshot whose
\* announcement, if any, is at least 60000 ms old
AskedAfterFloor ==
    /\ op.name = "shouldAnnounceEta"
    /\ args.current # Null
    /\ now - OrZero(StampOf(args.current)) >= VOICE_ANNOUNCEMENT_INTERVAL

\* C14: with a previous snapshot and at least 60000 ms since its announcement,
\* shouldAnnounceEta is true exactly when the ETA differs by more than 300 s,
\* or the previous snapshot is on the route and the next is off it, or the
\* traffic delays differ by more than 300 s.
C14_AnnounceIffTrigger ==
    AskedAfterFloor
        => LET previous == args.current[1]
               next     == args.newEta
           IN  returned[1] =
                   (\/ Abs(previous.value - next.value) > 300
                    \/ ~previous.isOffRoute /\ next.isOffRoute
                    \/ Abs(previous.trafficDelay - next.trafficDelay) > 300)

\* the minutes that a number of seconds rounds to
RoundedMinutes(seconds) ==
    CHOOSE m \in 0..(seconds \div 60 + 1) : 60 * m - 30 <= seconds /\ seconds < 60 * m + 30

\* C17: the sentence of an off-route snapshot is the off-route sentence, with
\* no delay clause; the sentence of any other snapshot is the arrival
\* countdown (arrived under one rounded minute, minutes under sixty, hours and
\* minutes from sixty on) with the delay clause exactly when trafficDelay > 300.
C17_AnnouncementText ==
    (op.name = "announceEta" /\ Speaks)
        => LET eta == args.newEta
               m   == RoundedMinutes(eta.value)
           IN  /\ spoken # Null
               /\ eta.isOffRoute
                      => spoken[1] = [say |-> "off route", hours |-> 0,
                                      minutes |-> 0, delayMinutes |-> 0]
               /\ ~eta.isOffRoute
                      => /\ m < 1 => spoken[1].say = "arrived"
                         /\ (m >= 1 /\ m < 60)
                                => (spoken[1].say = "minutes" /\ spoken[1].minutes = m)
                         /\ m >= 60
                                => /\ spoken[1].say = "hours"
                                   /\ 60 * spoken[1].hours + spoken[1].minutes = m
                                   /\ spoken[1].minutes < 60
                         /\ (spoken[1].delayMinutes > 0) = (eta.trafficDelay > 300)
                         /\ eta.trafficDelay > 300
                                => spoken[1].delayMinutes = RoundedMinutes(eta.trafficDelay)

\* an arrival in two hours and two minutes (rounded) with exactly five minutes
\* of delay was spoken without the delay clause
C17_Witness ==
    /\ op.name = "announceEta"
    /\ args.newEta.value = 7290 /\ args.newEta.trafficDelay = 300
    /\ ~args.newEta.isOffRoute
    /\ spoken = Some([say |-> "hours", hours |-> 2, minutes |-> 2, delayMinutes |-> 0])

\* C15: updateEta speaks, and stamps the snapshot with the time of the call,
\* only in a cycle where voiceEnabled is true and shouldAnnounceEta returns
\* true: with voice disabled it speaks nothing, and a snapshot of a cycle
\* without announcement carries the lastVoiceAnnouncement of the snapshot
\* before it.
C15_SpeechOnlyWhenAnnouncing ==
    [][Updating(op')
       => LET announcing == /\ op'.result = "snapshot"
                            /\ voiceEnabled
                            /\ shouldAnnounceEta(currentEta, currentEta'[1], now)
          IN  /\ ~voiceEnabled => spoken' = Null
              /\ spoken' # Null => announcing
              /\ op'.result = "snapshot"
                     => StampOf(currentEta') =
                            IF announcing THEN Some(now) ELSE StampOf(currentEta)]_vars

\* the snapshot at start-up was announced, voice was then switched off, and a
\* later snapshot, silent, still carries the time of that announcement
C15_Witness ==
    /\ Updating(op) /\ op.result = "snapshot"
    /\ ~voiceEnabled
    /\ now > StartTime
    /\ spoken = Null
    /\ spokeAt = Some(StartTime)
    /\ StampOf(currentEta) = Some(StartTime)

\* C16: from the initial state, after a location fix with a positive speed on
\* a route of at least two points, with voice enabled, the first updateEta
\* stores a snapshot and speaks an arrival announcement.
C16_FirstUpdateAnnouncesArrival ==
    [][(/\ Updating(op')
        /\ currentEta = Null /\ lastEtaUpdate = 0
        /\ currentLocation # Null /\ currentLocation[1].speed > 0
        /\ route # Null
        /\ calculateRouteStatus(currentLocation[1], route[1].polyline) # Null
        /\ ~calculateRouteStatus(currentLocation[1], route[1].polyline)[1].isOffRoute
        /\ voiceEnabled
        /\ Speaks)
       => /\ op'.result = "snapshot"
          /\ spoken' # Null
          /\ spoken'[1].say \in {"arrived", "minutes", "hours"}]_vars

\* the first snapshot is being stored on a phone at hour 8, voice enabled, with
\* a traffic delay above 300 s
FirstRushHourSnapshot ==
    /\ Updating(op') /\ op'.result = "snapshot"
    /\ currentEta = Null
    /\ voiceEnabled
    /\ Speaks
    /\ HourOf(now) = 8
    /\ currentEta'[1].trafficDelay > 300

----------------------------------------------------------------------------
(* Properties of the screen *)

\* C19: while route is null, no dispatch of updateEta (by the timer or by an
\* effect), no location fix and no passing of time changes currentEta or
\* speaks; and once the ETA effect has run for a null route, no timer is left.
C19_NoUpdateAfterRouteCleared ==
    [][/\ (/\ route = Null
           /\ op'.name \in {"updateEta", "setCurrentLocation", "etaEffect",
                             "speedEffect", "tick"})
              => (UNCHANGED currentEta /\ spoken' = Null)
       /\ (route' = Null /\ etaEffectDeps' # Null /\ etaEffectDeps'[1].route = Null)
              => etaUpdateInterval' = Null]_vars

\* the timer fired once more after the route of a stored snapshot was cleared,
\* before the effect's clean-up, and its updateEta was skipped
C19_Witness ==
    /\ op = Ran("updateEta", Some("interval"), "skipped")
    /\ route = Null
    /\ currentEta # Null
    /\ etaUpdateInterval # Null

----------------------------------------------------------------------------
(* Properties of the decoder *)

IsPrefix(p, q) == Len(p) <= Len(q) /\ SubSeq(q, 1, Len(p)) = p

\* where the values of a string end: at each character below 0x20 + 63
ValueEnds(str) == {i \in 1..Len(str) : str[i] - 63 < 32}

\* the length of the part of a string that holds whole latitude, longitude
\* pairs
WholeLength(str) ==
    LET ends == ValueEnds(str)
        m    == 2 * (Cardinality(ends) \div 2)
    IN  IF m = 0 THEN 0
        ELSE CHOOSE i \in ends : Cardinality({j \in ends : j <= i}) = m

\* C20: decodePolyline returns for every string, the empty sequence for the
\* empty string (and null); for a string that ends in the middle of a value or
\* of a pair it returns what it returns for the whole pairs before, at most
\* one coordinate per pair; and what it returns for a prefix of a string is a
\* prefix of what it returns for the string.
C20_PartialDecode ==
    op.name = "decodePolyline"
        => LET encoded == args.encoded
               whole   == SubSeq(encoded, 1, WholeLength(encoded))
           IN  /\ returned # Null
               /\ encoded = <<>> => returned[1] = <<>>
               /\ returned[1] = decodePolyline(whole)
               /\ Len(returned[1]) <= Cardinality(ValueEnds(encoded)) \div 2
               /\ \A p \in Prefixes(encoded) :
                      IsPrefix(decodePolyline(p), returned[1])

\* the route's polyline cut in the middle of its last longitude decodes to its
\* first two points
C20_Witness ==
    /\ op.name = "decodePolyline"
    /\ args.encoded = SubSeq(MainPolyline, 1, Len(MainPolyline) - 1)
    /\ returned = Some(<<Loc(0, 0), Loc(0, 3000)>>)

----------------------------------------------------------------------------
(* The route status on its own: calculateRouteStatus is applied to fixes on, *)
(* near and off the routes' paths.                                           *)

\* on a vertex; half way between two; 55 m before one; 99, 100, 101 and 556 m
\* (89, 90, 91 and 500 grid steps) to the north of these
StatusFixes ==
    {Loc(lat, lng) : lat \in {0, 89, 90, 91, 500},
                     lng \in {0, 1500, 2950, 3000, 6000}}

StatusPolylines ==
    {MainPolyline, AltPolyline, LongPolyline, OnePointPolyline, <<>>}

InitStatus ==
    /\ initialState
    /\ now = StartTime
    /\ platformOS = "ios"
    /\ tzHour = 0
    /\ op = Ran("init", Null, "ok")
    /\ logged = Null
    /\ spoken = Null
    /\ snapshotAt = Null
    /\ spokeAt = Null
    /\ args \in {[currentLocation |-> l, polyline |-> p] :
                    l \in StatusFixes, p \in StatusPolylines}
    /\ returned = Null
    /\ etaUpdateInterval = Null
    /\ etaEffectDeps = Null
    /\ speedEffectDeps = Null
    /\ hostInit

\* calculateRouteStatus(currentLocation, polyline)
CallCalculateRouteStatus ==
    /\ op.name = "init"
    /\ returned' = Some(calculateRouteStatus(args.currentLocation, args.polyline))
    /\ op' = Ran("calculateRouteStatus", Null, "ok")
    /\ UNCHANGED sliceVars
    /\ UNCHANGED <<now, platformOS, tzHour, logged, spoken, snapshotAt, spokeAt, args>>
    /\ UNCHANGED <<screenVars, hostVars>>

NextStatus == CallCalculateRouteStatus

SpecStatus == InitStatus /\ [][NextStatus]_vars

----------------------------------------------------------------------------
(* The traffic model: updateEta at every hour of the day, on a route of      *)
(* 6670 m and on one of 10000 m, at 10 m/s.                                  *)

\* how long the runs last, ms
TrafficHorizon == 60000

\* "???cqP": (0,0) (0,0.08994), one leg of 10000 m
TenKmPolyline == <<63, 63, 63, 99, 113, 80>>
TenKmRoute == MakeRoute(TenKmPolyline, Some(<<"Head east">>),
                        Metric("6.2 mi", 10000), Metric("12 min", 720))

InitTraffic ==
    /\ initialState
    /\ now = StartTime
    /\ platformOS = "ios"
    /\ tzHour \in 0..23
    /\ op = Ran("init", Null, "ok")
    /\ logged = Null
    /\ spoken = Null
    /\ snapshotAt = Null
    /\ spokeAt = Null
    /\ args = Null
    /\ returned = Null
    /\ etaUpdateInterval = Null
    /\ etaEffectDeps = Null
    /\ speedEffectDeps = Null
    /\ hostInit

NextTraffic ==
    \/ \E l \in {Loc(0, 0), Loc(0, 3000)} : setCurrentLocation(l)
    \/ setSpeed(Some(10))
    \/ \E r \in {MainRoute, TenKmRoute} : setRoute(Some(r))
    \/ updateEta
    \/ Tick(30000, TrafficHorizon)

SpecTraffic == InitTraffic /\ [][NextTraffic]_vars

----------------------------------------------------------------------------
(* The route cache: NavigationScreen's cache effect and fetch effect, with   *)
(* what they await, while the user edits the waypoints and hours pass.       *)

\* the age, ms, from which loadCachedRoute discards an entry
CacheMaxAge == 3600000

\* how long the cache runs last, ms
CacheHorizon == 3600000
\* how many loadCachedRoute runs, and how many fetchRoute runs, are pending
\* at a time
MaxPendingLoads == 2
MaxPendingFetches == 2

\* JSON of {route: routes[0], alternativeRoutes: routes.slice(1), waypoints,
\* timestamp}
CacheEntry(routes, ws, t) ==
    [route |-> Head(routes), alternativeRoutes |-> Tail(routes),
     waypoints |-> ws, timestamp |-> t]

\* what an action of the screen or of a hook leaves behind
Host(name, arg, result) ==
    /\ op' = Ran(name, arg, result)
    /\ logged' = Null
    /\ spoken' = Null
    /\ UNCHANGED <<now, platformOS, tzHour, snapshotAt, spokeAt, args, returned>>
    /\ UNCHANGED screenVars

\* The cache effect, on mount and after waypoints changed: loadCachedRoute is
\* called and awaits getItem.
CacheEffect ==
    /\ cacheEffectDeps # Some(waypoints)
    /\ Cardinality(cacheLoads \cup {waypoints}) <= MaxPendingLoads
    /\ cacheEffectDeps' = Some(waypoints)
    /\ cacheLoads' = cacheLoads \cup {waypoints}
    /\ Host("cacheEffect", Null, "pending")
    /\ UNCHANGED sliceVars
    /\ UNCHANGED <<cache, fetches, fetchEffectDeps>>
    /\ UNCHANGED <<locationVars, searchVars, retryVars, selectorVars>>

\* getItem resolves for the run that was started with the waypoints ws:
\* setRoute and setAlternativeRoutes with a young entry of these waypoints,
\* removeItem with any other entry.
LoadCachedRoute(ws) ==
    /\ ws \in cacheLoads
    /\ cacheLoads' = cacheLoads \ {ws}
    /\ IF cache = Null
       THEN /\ Host("loadCachedRoute", Null, "empty")
            /\ UNCHANGED sliceVars
            /\ UNCHANGED cache
       ELSE LET cachedData == cache[1]
                cacheAge == now - cachedData.timestamp
            IN  IF cacheAge < CacheMaxAge /\ cachedData.waypoints = ws
                THEN /\ route' = Some(cachedData.route)
                     /\ selectedRouteIndex' = 0
                     /\ IF cachedData.route.polyline # <<>>
                           /\ cachedData.route.steps # Null
                        THEN /\ isNavigationCardVisible' = TRUE
                             /\ cardState' = "expanded"
                        ELSE UNCHANGED <<isNavigationCardVisible, cardState>>
                     /\ alternativeRoutes' = Some(cachedData.alternativeRoutes)
                     /\ Host("loadCachedRoute", Some(cachedData), "restored")
                     /\ UNCHANGED <<currentLocation, waypoints, error, speed,
                                    currentEta, lastEtaUpdate, voiceEnabled,
                                    updateFrequency, lastRouteSwitch, loading,
                                    heading>>
                     /\ UNCHANGED cache
                ELSE /\ cache' = Null
                     /\ Host("loadCachedRoute", Some(cachedData), "removed")
                     /\ UNCHANGED sliceVars
    /\ UNCHANGED <<cacheEffectDeps, fetches, fetchEffectDeps>>
    /\ UNCHANGED <<locationVars, searchVars, retryVars, selectorVars>>

\* [currentLocation, waypoints]
FetchEffectDepsNow == [currentLocation |-> currentLocation, waypoints |-> waypoints]

\* The fetch effect, after the cache effect, on mount and after the location
\* or the waypoints changed: with a location and a waypoint, withErrorHandling and fetchRoute
\* dispatch setLoading(true) and setError(null), and getDirections is awaited.
FetchEffect ==
    /\ cacheEffectDeps = Some(waypoints)
    /\ fetchEffectDeps # Some(FetchEffectDepsNow)
    /\ Cardinality(fetches \cup {FetchEffectDepsNow}) <= MaxPendingFetches
    /\ fetchEffectDeps' = Some(FetchEffectDepsNow)
    /\ IF currentLocation = Null \/ Len(waypoints) = 0
       THEN /\ Host("fetchRoute", Null, "idle")
            /\ UNCHANGED sliceVars
            /\ UNCHANGED fetches
       ELSE /\ loading' = TRUE
            /\ error' = Null
            /\ fetches' = fetches \cup {FetchEffectDepsNow}
            /\ Host("fetchRoute", Null, "pending")
            /\ UNCHANGED <<currentLocation, waypoints, route, alternativeRoutes,
                           selectedRouteIndex, speed, currentEta, lastEtaUpdate,
                           voiceEnabled, updateFrequency, isNavigationCardVisible,
                           cardState, lastRouteSwitch, heading>>
    /\ UNCHANGED <<cache, cacheLoads, cacheEffectDeps>>
    /\ UNCHANGED <<locationVars, searchVars, retryVars, selectorVars>>

\* getDirections resolves with routes for the run f: the entry is written
\* with the run's waypoints (stored: setItem did not throw), then setRoute,
\* setAlternativeRoutes when there are alternates, and setLoading(false).
GetDirectionsResolves(f, routes, stored) ==
    /\ f \in fetches
    /\ fetches' = fetches \ {f}
    /\ cache' = IF stored THEN Some(CacheEntry(routes, f.waypoints, now)) ELSE cache
    /\ route' = Some(Head(routes))
    /\ selectedRouteIndex' = 0
    /\ IF Head(routes).polyline # <<>> /\ Head(routes).steps # Null
       THEN /\ isNavigationCardVisible' = TRUE
            /\ cardState' = "expanded"
       ELSE UNCHANGED <<isNavigationCardVisible, cardState>>
    /\ alternativeRoutes' = IF Len(routes) > 1 THEN Some(Tail(routes))
                            ELSE alternativeRoutes
    /\ loading' = FALSE
    /\ op' = Ran("fetchRoute", Some([run |-> f, routes |-> routes]), "stored")
    /\ logged' = IF stored THEN Null ELSE Some("Error caching route:")
    /\ spoken' = Null
    /\ UNCHANGED <<currentLocation, waypoints, error, speed, currentEta,
                   lastEtaUpdate, voiceEnabled, updateFrequency, lastRouteSwitch,
                   heading>>
    /\ UNCHANGED <<now, platformOS, tzHour, snapshotAt, spokeAt, args, returned>>
    /\ UNCHANGED screenVars
    /\ UNCHANGED <<cacheLoads, cacheEffectDeps, fetchEffectDeps>>
    /\ UNCHANGED <<locationVars, searchVars, retryVars, selectorVars>>

\* getDirections throws, or resolves with no route: handleError dispatches
\* setError(error.message) and setLoading(false)
GetDirectionsRejects(f) ==
    /\ f \in fetches
    /\ fetches' = fetches \ {f}
    /\ error' = Some("No routes found")
    /\ loading' = FALSE
    /\ op' = Ran("fetchRoute", Null, "failed")
    /\ logged' = Some("Error:")
    /\ spoken' = Null
    /\ UNCHANGED <<currentLocation, waypoints, route, alternativeRoutes,
                   selectedRouteIndex, speed, currentEta, lastEtaUpdate,
                   voiceEnabled, updateFrequency, isNavigationCardVisible,
                   cardState, lastRouteSwitch, heading>>
    /\ UNCHANGED <<now, platformOS, tzHour, snapshotAt, spokeAt, args, returned>>
    /\ UNCHANGED screenVars
    /\ UNCHANGED <<cache, cacheLoads, cacheEffectDeps, fetchEffectDeps>>
    /\ UNCHANGED <<locationVars, searchVars, retryVars, selectorVars>>

\* handleLocationSelect: the next waypoint, "A" first and "B" second
NextWaypoint ==
    [name |-> IF Len(waypoints) = 0 THEN "A" ELSE "B", order |-> Len(waypoints)]

\* what the run before may have left in AsyncStorage: nothing, or the route
\* to "A" cached a minute before this run started
StartCaches ==
    {Null,
     Some(CacheEntry(<<MainRoute>>, <<[name |-> "A", order |-> 0]>>,
                     StartTime - 60000))}

InitCache ==
    /\ initialState
    /\ now = StartTime
    /\ platformOS = "ios"
    /\ tzHour = 0
    /\ op = Ran("init", Null, "ok")
    /\ logged = Null
    /\ spoken = Null
    /\ snapshotAt = Null
    /\ spokeAt = Null
    /\ args = Null
    /\ returned = Null
    /\ etaUpdateInterval = Null
    /\ etaEffectDeps = Null
    /\ speedEffectDeps = Null
    /\ cache \in StartCaches
    /\ effectsInit

\* both effects have run for the state as it is: React runs the effects of
\* a render before it handles the next event
EffectsRan ==
    /\ cacheEffectDeps = Some(waypoints)
    /\ fetchEffectDeps = Some(FetchEffectDepsNow)

NextCache ==
    \/ EffectsRan /\ setCurrentLocation(Loc(0, 0))
    \/ /\ EffectsRan
       /\ Len(waypoints) < MaxWaypoints
       /\ addWaypoint(NextWaypoint)
    \/ /\ EffectsRan
       /\ Len(waypoints) > 0
       /\ removeWaypoint(Len(waypoints) - 1)
    \/ CacheEffect
    \/ \E ws \in cacheLoads : LoadCachedRoute(ws)
    \/ FetchEffect
    \/ \E f \in fetches, routes \in {<<MainRoute>>, <<MainRoute, AltRoute>>},
          stored \in BOOLEAN : GetDirectionsResolves(f, routes, stored)
    \/ \E f \in fetches : GetDirectionsRejects(f)
    \/ EffectsRan /\ Tick(CacheMaxAge, CacheHorizon)

SpecCache == InitCache /\ [][NextCache]_vars

----------------------------------------------------------------------------
(* The location hook: useLocation's effect, what setupLocation awaits, the   *)
(* callbacks of its two watches and its clean-up.                            *)

\* location.coords as expo-location reports them; speed and heading may be
\* null
Coords(lat, lng, spd, hdg) ==
    [latitude |-> lat, longitude |-> lng, speed |-> spd, heading |-> hdg]

\* the Location built from coords: `speed || 0`, `heading || 0` (accuracy and
\* altitude are carried along and read by nobody)
LocationOf(coords) ==
    [latitude |-> coords.latitude, longitude |-> coords.longitude,
     speed |-> OrZero(coords.speed), heading |-> OrZero(coords.heading)]

\* the test of the position callback: another point, or a speed that differs
\* by more than 0.5, or a heading that differs by more than 5
ChangedSignificantly(coords, last) ==
    \/ last = Null
    \/ coords.latitude # last[1].latitude
    \/ coords.longitude # last[1].longitude
    \/ 2 * Abs(OrZero(coords.speed) - OrZero(last[1].speed)) > 1
    \/ Abs(OrZero(coords.heading) - OrZero(last[1].heading)) > 5

\* the calls that setupLocation awaits, in their order
SetupAwaits ==
    <<"requestForegroundPermissionsAsync", "requestBackgroundPermissionsAsync",
      "enableNetworkProviderAsync", "getCurrentPositionAsync",
      "watchPositionAsync", "watchHeadingAsync">>

Awaiting(k) == setupStage = SetupAwaits[k]

\* what a step of the hook leaves alone outside the slice
HookStep(name, arg, result) ==
    /\ Host(name, arg, result)
    /\ UNCHANGED <<cacheVars, searchVars, retryVars, selectorVars>>
    /\ UNCHANGED locationPermission

\* the effect, once per mount: setupLocation runs up to its first await
LocationEffect ==
    /\ setupStage = "idle"
    /\ locationMounted
    /\ setupStage' = SetupAwaits[1]
    /\ HookStep("useLocation", Null, "pending")
    /\ UNCHANGED sliceVars
    /\ UNCHANGED <<locationMounted, locationSubscription, headingSubscription,
                   positionWatch, headingWatch, lastLocation>>

\* requestForegroundPermissionsAsync resolves
ForegroundPermission(foregroundStatus) ==
    /\ Awaiting(1)
    /\ IF foregroundStatus # "granted"
       THEN /\ error' = Some("Location permission denied")
            /\ setupStage' = "denied"
            /\ UNCHANGED <<currentLocation, waypoints, route, alternativeRoutes,
                           selectedRouteIndex, speed, currentEta, lastEtaUpdate,
                           voiceEnabled, updateFrequency, isNavigationCardVisible,
                           cardState, lastRouteSwitch, loading, heading>>
       ELSE /\ setupStage' = SetupAwaits[2]
            /\ UNCHANGED sliceVars
    /\ HookStep("setupLocation", Some(foregroundStatus), "foreground")
    /\ UNCHANGED <<locationMounted, locationSubscription, headingSubscription,
                   positionWatch, headingWatch, lastLocation>>

\* requestBackgroundPermissionsAsync resolves: a warning at most
BackgroundPermission(backgroundStatus) ==
    /\ Awaiting(2)
    /\ setupStage' = SetupAwaits[3]
    /\ HookStep("setupLocation", Some(backgroundStatus), "background")
    /\ UNCHANGED sliceVars
    /\ UNCHANGED <<locationMounted, locationSubscription, headingSubscription,
                   positionWatch, headingWatch, lastLocation>>

\* enableNetworkProviderAsync resolves
NetworkProviderEnabled ==
    /\ Awaiting(3)
    /\ setupStage' = SetupAwaits[4]
    /\ HookStep("setupLocation", Null, "network")
    /\ UNCHANGED sliceVars
    /\ UNCHANGED <<locationMounted, locationSubscription, headingSubscription,
                   positionWatch, headingWatch, lastLocation>>

\* getCurrentPositionAsync resolves: the first setCurrentLocation, then
\* watchPositionAsync is called
InitialPosition(coords) ==
    /\ Awaiting(4)
    /\ currentLocation' = Some(LocationOf(coords))
    /\ lastLocation' = Some(coords)
    /\ setupStage' = SetupAwaits[5]
    /\ HookStep("setCurrentLocation", Some("initial"), "ok")
    /\ UNCHANGED <<waypoints, route, alternativeRoutes, selectedRouteIndex, error,
                   speed, currentEta, lastEtaUpdate, voiceEnabled, updateFrequency,
                   isNavigationCardVisible, cardState, lastRouteSwitch, loading,
                   heading>>
    /\ UNCHANGED <<locationMounted, locationSubscription, headingSubscription,
                   positionWatch, headingWatch>>

\* watchPositionAsync resolves: the watch runs, its subscription goes into the
\* ref, and watchHeadingAsync is called
WatchPositionStarted ==
    /\ Awaiting(5)
    /\ positionWatch' = "active"
    /\ locationSubscription' = Some("subscription")
    /\ setupStage' = SetupAwaits[6]
    /\ HookStep("setupLocation", Null, "watchPosition")
    /\ UNCHANGED sliceVars
    /\ UNCHANGED <<locationMounted, headingSubscription, headingWatch, lastLocation>>

\* watchHeadingAsync resolves
WatchHeadingStarted ==
    /\ Awaiting(6)
    /\ headingWatch' = "active"
    /\ headingSubscription' = Some("subscription")
    /\ setupStage' = "done"
    /\ HookStep("setupLocation", Null, "watchHeading")
    /\ UNCHANGED sliceVars
    /\ UNCHANGED <<locationMounted, locationSubscription, positionWatch, lastLocation>>

\* the call that setupLocation awaits throws: the catch
SetupFails ==
    /\ \E k \in 1..Len(SetupAwaits) : Awaiting(k)
    /\ error' = Some("Error getting location")
    /\ setupStage' = "failed"
    /\ op' = Ran("setupLocation", Null, "failed")
    /\ logged' = Some("Location error:")
    /\ spoken' = Null
    /\ UNCHANGED <<currentLocation, waypoints, route, alternativeRoutes,
                   selectedRouteIndex, speed, currentEta, lastEtaUpdate,
                   voiceEnabled, updateFrequency, isNavigationCardVisible,
                   cardState, lastRouteSwitch, loading, heading>>
    /\ UNCHANGED <<now, platformOS, tzHour, snapshotAt, spokeAt, args, returned>>
    /\ UNCHANGED screenVars
    /\ UNCHANGED <<cacheVars, searchVars, retryVars, selectorVars>>
    /\ UNCHANGED <<locationPermission, locationMounted, locationSubscription,
                   headingSubscription, positionWatch, headingWatch, lastLocation>>

\* the callback of the position watch
PositionFix(coords) ==
    /\ positionWatch = "active"
    /\ IF ChangedSignificantly(coords, lastLocation)
       THEN /\ currentLocation' = Some(LocationOf(coords))
            /\ lastLocation' = Some(coords)
            /\ HookStep("setCurrentLocation", Some("watch"), "ok")
       ELSE /\ UNCHANGED <<currentLocation, lastLocation>>
            /\ HookStep("positionFix", Null, "idle")
    /\ UNCHANGED <<waypoints, route, alternativeRoutes, selectedRouteIndex, error,
                   speed, currentEta, lastEtaUpdate, voiceEnabled, updateFrequency,
                   isNavigationCardVisible, cardState, lastRouteSwitch, loading,
                   heading>>
    /\ UNCHANGED <<locationMounted, setupStage, locationSubscription,
                   headingSubscription, positionWatch, headingWatch>>

\* the callback of the heading watch; trueHeading: Null or <<degrees>>
HeadingFix(trueHeading) ==
    /\ headingWatch = "active"
    /\ IF trueHeading # Null
       THEN /\ heading' = trueHeading
            /\ HookStep("setHeading", Some("watch"), "ok")
       ELSE /\ UNCHANGED heading
            /\ HookStep("headingFix", Null, "idle")
    /\ UNCHANGED <<currentLocation, waypoints, route, alternativeRoutes,
                   selectedRouteIndex, error, speed, currentEta, lastEtaUpdate,
                   voiceEnabled, updateFrequency, isNavigationCardVisible,
                   cardState, lastRouteSwitch, loading>>
    /\ UNCHANGED <<locationMounted, setupStage, locationSubscription,
                   headingSubscription, positionWatch, headingWatch, lastLocation>>

\* the clean-up of the effect, on unmount: remove() on the subscriptions that
\* the refs hold
LocationCleanup ==
    /\ locationMounted
    /\ setupStage # "idle"
    /\ locationMounted' = FALSE
    /\ positionWatch' = IF locationSubscription # Null THEN "removed"
                        ELSE positionWatch
    /\ headingWatch' = IF headingSubscription # Null THEN "removed"
                       ELSE headingWatch
    /\ HookStep("useLocation", Null, "cleanup")
    /\ UNCHANGED sliceVars
    /\ UNCHANGED <<setupStage, locationSubscription, headingSubscription,
                   lastLocation>>

PermissionStatuses == {"granted", "denied", "undetermined"}

\* a fix without speed and heading; one step on at 10 m/s heading east; the
\* same point a little faster; the same point turned by 3 degrees
FixCoords ==
    {Coords(0, 0, Null, Null), Coords(0, 3000, Some(10), Some(90)),
     Coords(0, 3000, Some(11), Some(90)), Coords(0, 3000, Some(10), Some(93))}

NextLocation ==
    \/ LocationEffect
    \/ \E status \in PermissionStatuses : ForegroundPermission(status)
    \/ \E status \in PermissionStatuses : BackgroundPermission(status)
    \/ NetworkProviderEnabled
    \/ \E coords \in FixCoords : InitialPosition(coords)
    \/ WatchPositionStarted
    \/ WatchHeadingStarted
    \/ SetupFails
    \/ \E coords \in FixCoords : PositionFix(coords)
    \/ \E h \in {Null, Some(90), Some(180)} : HeadingFix(h)
    \/ LocationCleanup

SpecLocation == InitEta /\ [][NextLocation]_vars

----------------------------------------------------------------------------
(* The reducers that empty the store, each applied once to a store with up   *)
(* to MaxWaypoints waypoints, with or without a route and alternates.        *)

WaypointNames == <<"Los Angeles", "New York", "Chicago", "Boston">>

\* the waypoints as handleLocationSelect adds them: order = position
StartWaypoints ==
    {[i \in 1..n |-> [name |-> WaypointNames[i], order |-> i - 1]] :
        n \in 0..MaxWaypoints}

\* route, alternativeRoutes and selectedRouteIndex: nothing fetched; one
\* route; two routes with either of them selected
StartCatalogs ==
    {<<Null, Null, 0>>, <<Some(MainRoute), Null, 0>>,
     <<Some(MainRoute), Some(<<AltRoute>>), 0>>,
     <<Some(MainRoute), Some(<<AltRoute>>), 1>>}

\* args: the payload of removeWaypoint and the store before the reducer
InitWaypoints ==
    /\ currentLocation = Null
    /\ waypoints \in StartWaypoints
    /\ \E c \in StartCatalogs :
          /\ route = c[1]
          /\ alternativeRoutes = c[2]
          /\ selectedRouteIndex = c[3]
    /\ error \in {Null, Some("No routes found")}
    /\ speed = Null
    /\ currentEta = Null
    /\ lastEtaUpdate = 0
    /\ voiceEnabled = TRUE
    /\ updateFrequency = "normal"
    /\ isNavigationCardVisible = TRUE
    /\ cardState = IF route = Null THEN "hidden" ELSE "expanded"
    /\ lastRouteSwitch = 0
    /\ loading = FALSE
    /\ heading = Null
    /\ now = StartTime
    /\ platformOS = "ios"
    /\ tzHour = 0
    /\ op = Ran("init", Null, "ok")
    /\ logged = Null
    /\ spoken = Null
    /\ snapshotAt = Null
    /\ spokeAt = Null
    /\ \E k \in 0..MaxWaypoints :
          args = [order |-> k, waypoints |-> waypoints, route |-> route,
                  alternativeRoutes |-> alternativeRoutes,
                  selectedRouteIndex |-> selectedRouteIndex, error |-> error]
    /\ returned = Null
    /\ etaUpdateInterval = Null
    /\ etaEffectDeps = Null
    /\ speedEffectDeps = Null
    /\ hostInit

NextWaypoints ==
    /\ op.name = "init"
    /\ \/ removeWaypoint(args.order)
       \/ clearWaypoints
       \/ clearNavigation

SpecWaypoints == InitWaypoints /\ [][NextWaypoints]_vars

----------------------------------------------------------------------------
(* Properties of the route status and of the traffic model *)

\* a call of calculateRouteStatus that returned a status
StatusReturned ==
    /\ op.name = "calculateRouteStatus"
    /\ returned[1] # Null

\* C23: whenever calculateRouteStatus returns a status, isOffRoute is true
\* exactly when distanceToRoute is more than 100 m; at 100 m it is false.
C23_OffRouteIffBeyondThreshold ==
    StatusReturned =>
        (returned[1][1].isOffRoute <=> returned[1][1].distanceToRoute > 100)

\* a fix 100 m from the nearest vertex is on the route
C23_Witness ==
    /\ StatusReturned
    /\ returned[1][1].distanceToRoute = 100
    /\ ~returned[1][1].isOffRoute

\* the status that the snapshot just stored was computed from
StatusNow == calculateRouteStatus(currentLocation[1], route[1].polyline)[1]

\* C24: the snapshot's traffic delay is the whole seconds of
\* remainingDistance * 0.2 / 50 (remainingDistance / 250) when the local hour
\* of the update is 7, 8, 9, 16, 17 or 18 and 0 at any other hour, and the
\* snapshot's value is the base travel seconds plus that delay.
C24_TrafficDelay ==
    Updating(op) /\ op.result = "snapshot" =>
        LET eta == currentEta[1]
            remainingDistance == StatusNow.remainingDistance
        IN  /\ IF HourOf(now) \in {7, 8, 9, 16, 17, 18}
               THEN /\ eta.trafficDelay * 250 <= remainingDistance
                    /\ remainingDistance < (eta.trafficDelay + 1) * 250
               ELSE eta.trafficDelay = 0
            /\ eta.value =
                   BaseTimeSeconds(remainingDistance, speed[1]) + eta.trafficDelay

\* 10000 m to go at hour 8: a delay of 40 s on top of the base time
C24_Witness ==
    /\ Updating(op) /\ op.result = "snapshot"
    /\ HourOf(now) = 8
    /\ StatusNow.remainingDistance = 10000
    /\ currentEta[1].trafficDelay = 40
    /\ currentEta[1].value = BaseTimeSeconds(10000, 10) + 40

----------------------------------------------------------------------------
(* Properties of the route cache *)

\* loadCachedRoute found an entry
LoadedEntry == op.name = "loadCachedRoute" /\ op.arg # Null

\* C25: loadCachedRoute restores an entry only if the entry is less than one
\* hour old and its waypoints are the store's waypoints; any other entry it
\* finds is removed and does not become the store's route.
C25_RestoreOnlyFreshForCurrentWaypoints ==
    LoadedEntry =>
        LET cachedData == op.arg[1]
            fits == /\ now - cachedData.timestamp < 3600000
                    /\ cachedData.waypoints = waypoints
        IN  IF fits THEN op.result \in {"restored", "removed"}
            ELSE op.result = "removed" /\ cache = Null

----------------------------------------------------------------------------
(* Properties of the location hook *)

\* C26: once the foreground permission is denied, the store's error is
\* 'Location permission denied', the hook reports locationPermission false,
\* no position or heading watch has been started and no location has been
\* dispatched.
C26_PermissionDenied ==
    setupStage = "denied" =>
        /\ error = Some("Location permission denied")
        /\ locationPermission = FALSE
        /\ positionWatch = "none"
        /\ headingWatch = "none"
        /\ currentLocation = Null

----------------------------------------------------------------------------
(* Properties of the waypoint reducers *)

\* C27: removeWaypoint(k) leaves the waypoints whose order is not k, each as
\* it was before, its order included.
C27_RemoveKeepsTheOthers ==
    op.name = "removeWaypoint" =>
        waypoints = SelectSeq(args.waypoints, LAMBDA w : w.order # args.order)

\* C28: after clearWaypoints, after clearNavigation and after a
\* removeWaypoint that leaves no waypoint, the store has no waypoints, no
\* route and no alternates, and selectedRouteIndex is 0.
C28_EmptiedStore ==
    (\/ op.name \in {"clearWaypoints", "clearNavigation"}
     \/ op.name = "removeWaypoint" /\ waypoints = <<>>) =>
        /\ waypoints = <<>>
        /\ route = Null
        /\ alternativeRoutes = Null
        /\ selectedRouteIndex = 0

\* the only waypoint was removed while the alternate was selected
C28_Witness ==
    /\ op.name = "removeWaypoint"
    /\ Len(args.waypoints) = 1
    /\ args.route # Null
    /\ args.alternativeRoutes # Null
    /\ args.selectedRouteIndex = 1
    /\ waypoints = <<>>
    /\ route = Null
    /\ alternativeRoutes = Null
    /\ selectedRouteIndex = 0

----------------------------------------------------------------------------
(* Properties of the update cycle and of the announcement policy, continued *)

\* an update is dispatched with a route and a fix, the cadence has passed,
\* and the route status of the fix has less than 5000 m to go
CycleWithinFrequentDistance ==
    /\ route # Null
    /\ currentLocation # Null
    /\ now - lastEtaUpdate >= Cadence(updateFrequency)
    /\ LET status == calculateRouteStatus(currentLocation[1], route[1].polyline)
       IN  /\ status # Null
           /\ status[1].remainingDistance < 5000

\* C29: an update cycle that passes the cadence gate and finds a route status
\* with less than 5000 m to go leaves updateFrequency 'frequent', whatever the
\* speed is, a null or zero speed included.
C29_FrequentWithinFiveKm ==
    [][(Updating(op') /\ CycleWithinFrequentDistance)
       => updateFrequency' = "frequent"]_vars

\* C30: with a previous snapshot and at least 60000 ms since its announcement,
\* shouldAnnounceEta is true whenever the traffic delays of the two snapshots,
\* a delay of 0 included, differ by more than 300 s.
C30_TrafficChangeAnnounced ==
    AskedAfterFloor
        => LET previous == args.current[1]
               next     == args.newEta
           IN  Abs(previous.trafficDelay - next.trafficDelay) > 300
                   => returned[1] = TRUE

----------------------------------------------------------------------------
(* Properties of the codec, continued *)

\* C21: whatever in-range path on the 1e-5 grid is encoded, decoding the
\* encoded string gives the path back, point for point.
C21_RoundTrip ==
    op.name = "decodePolyline" => returned = Some(args.path)

\* a three-point path through both corners of the range has come back
C21_Witness ==
    /\ op.name = "decodePolyline"
    /\ args.path = <<Loc(9000000, 18000000), Loc(-9000000, -18000000), Loc(1, -1)>>
    /\ returned = Some(args.path)

\* the reference string decoded
DecodedReference ==
    /\ op.name = "decodePolyline"
    /\ args.encoded = ReferencePolyline

\* C22 as stated: decoding the reference string yields the two coordinates
\* (38.5, -120.2) and (40.7, -120.95).
C22_ReferenceYieldsTwo ==
    DecodedReference =>
        returned = Some(<<Loc(3850000, -12020000), Loc(4070000, -12095000)>>)

\* C22: decoding the reference string yields three coordinates, the deltas
\* added up per axis: (38.5, -120.2), (40.7, -120.95) and (43.252, -126.453).
C22_ReferenceYieldsThree ==
    DecodedReference =>
        returned = Some(<<Loc(3850000, -12020000), Loc(4070000, -12095000),
                          Loc(4325200, -12645300)>>)

C22_Witness ==
    /\ DecodedReference
    /\ Len(returned[1]) = 3
    /\ returned[1][2] = Loc(4070000, -12095000)

----------------------------------------------------------------------------
(* The closest vertex and the remaining distance *)

\* the distance from loc to every vertex of the path
VertexDistances(loc, coordinates) ==
    [k \in 1..Len(coordinates) |->
        getDistance(loc.latitude, loc.longitude,
                    coordinates[k].latitude, coordinates[k].longitude)]

\* the smallest index of a vertex at the least distance
FirstClosest(loc, coordinates) ==
    LET d == VertexDistances(loc, coordinates)
    IN  CHOOSE k \in 1..Len(coordinates) :
            /\ \A j \in 1..Len(coordinates) : d[k] <= d[j]
            /\ \A j \in 1..(k - 1) : d[j] > d[k]

\* the length of the legs k -> k+1, ..., n-1 -> n, summed from the last leg
LegSum(coordinates, k) ==
    LET Leg(n) == getDistance(coordinates[n].latitude, coordinates[n].longitude,
                              coordinates[n + 1].latitude,
                              coordinates[n + 1].longitude)
        Sum[n \in Nat] == IF n < k THEN 0 ELSE Leg(n) + Sum[n - 1]
    IN  Sum[Len(coordinates) - 1]

\* C31: on a path of two or more vertices the status reports the least vertex
\* distance as distanceToRoute, and as remainingDistance the length of the
\* legs from the first vertex at that distance to the last vertex (0 when
\* that vertex is the last).
C31_ClosestVertexAndRemaining ==
    StatusReturned =>
        LET coordinates == decodePolyline(args.polyline)
            k == FirstClosest(args.currentLocation, coordinates)
        IN  /\ Len(coordinates) >= 2
            /\ returned[1][1].distanceToRoute =
                   VertexDistances(args.currentLocation, coordinates)[k]
            /\ returned[1][1].remainingDistance = LegSum(coordinates, k)
            /\ (k = Len(coordinates) => returned[1][1].remainingDistance = 0)

\* a fix half way between two vertices: the earlier one counts
C31_Witness ==
    /\ StatusReturned
    /\ LET coordinates == decodePolyline(args.polyline)
           d == VertexDistances(args.currentLocation, coordinates)
           k == FirstClosest(args.currentLocation, coordinates)
       IN  /\ \E j \in (k + 1)..Len(coordinates) :
                  /\ d[j] = d[k]
                  /\ LegSum(coordinates, j) < LegSum(coordinates, k)
           /\ returned[1][1].remainingDistance = LegSum(coordinates, k)

----------------------------------------------------------------------------
(* The range of the decoded coordinates *)

\* the pairs of values that encoded holds in full, in order
ValuePairs(encoded) ==
    LET Pairs[i \in Nat] ==
            IF i > Len(encoded) THEN <<>>
            ELSE LET a == ReadChunks(encoded, i, 0, 0)
                     b == ReadChunks(encoded, a.index, 0, 0)
                 IN  IF ~a.ok \/ ~b.ok THEN <<>>
                     ELSE <<[dlat |-> ZigZagDecode(a.result),
                             dlng |-> ZigZagDecode(b.result)]>> \o Pairs[b.index]
    IN  Pairs[1]

\* the sums of the first k pairs, for every k
RunningSums(pairs) ==
    LET Total[k \in Nat] ==
            IF k = 0 THEN [latitude |-> 0, longitude |-> 0]
            ELSE [latitude  |-> Total[k - 1].latitude + pairs[k].dlat,
                  longitude |-> Total[k - 1].longitude + pairs[k].dlng]
    IN  [k \in 1..Len(pairs) |-> Total[k]]

InRange(c) ==
    /\ -9000000 <= c.latitude /\ c.latitude <= 9000000
    /\ -18000000 <= c.longitude /\ c.longitude <= 18000000

DecodeCalled ==
    /\ op.name = "decodePolyline"
    /\ returned # Null

\* C32: every coordinate decodePolyline returns has its latitude in [-90, 90]
\* and its longitude in [-180, 180]; the result is the in-range part of the
\* running sums of all the deltas read, those of the points left out included.
C32_InRangeAndAccumulating ==
    DecodeCalled =>
        /\ \A k \in 1..Len(returned[1]) : InRange(returned[1][k])
        /\ returned[1] = SelectSeq(RunningSums(ValuePairs(args.encoded)), InRange)

\* a point beyond the pole is left out and the next point is counted from it
C32_Witness ==
    /\ DecodeCalled
    /\ args.encoded = OutOfRangePolyline
    /\ \E k \in 1..Len(RunningSums(ValuePairs(args.encoded))) :
           ~InRange(RunningSums(ValuePairs(args.encoded))[k])
    /\ returned[1] = <<Loc(0, 0), Loc(0, 1)>>

----------------------------------------------------------------------------
(* The itinerary: SearchBar adds the places the user selects, with what it   *)
(* awaits, while the user removes and moves waypoints in the list.           *)

\* how many handlePlaceSelect runs are pending at a time
MaxPendingLookups == 2

\* the places that are neither in the list nor being looked up
FreePlaces ==
    {WaypointNames[i] : i \in 1..(MaxWaypoints + 1)}
        \ ({waypoints[i].name : i \in 1..Len(waypoints)}
            \cup {p.name : p \in placeLookups})

\* handlePlaceSelect(data, details) for a place with a place_id: the order is
\* the waypoints.length of the render the callback was made in;
\* withErrorHandling dispatches setLoading(true) and setError(null), and
\* getPlaceDetails is awaited.
HandlePlaceSelect(name) ==
    /\ Cardinality(placeLookups) < MaxPendingLookups
    /\ Len(waypoints) + Cardinality(placeLookups) <= MaxWaypoints
    /\ placeLookups' = placeLookups \cup {[name |-> name, order |-> Len(waypoints)]}
    /\ loading' = TRUE
    /\ error' = Null
    /\ Host("handlePlaceSelect", Some(name), "pending")
    /\ UNCHANGED <<currentLocation, waypoints, route, alternativeRoutes,
                   selectedRouteIndex, speed, currentEta, lastEtaUpdate,
                   voiceEnabled, updateFrequency, isNavigationCardVisible,
                   cardState, lastRouteSwitch, heading>>
    /\ UNCHANGED <<cacheVars, locationVars, retryVars, selectorVars>>

\* getPlaceDetails resolves for the run p: addWaypoint with the order the run
\* holds, then setLoading(false)
GetPlaceDetailsResolves(p) ==
    /\ p \in placeLookups
    /\ placeLookups' = placeLookups \ {p}
    /\ waypoints' = SortedInsert(waypoints, p)
    /\ loading' = FALSE
    /\ Host("handlePlaceSelect", Some(p.name), "added")
    /\ UNCHANGED <<currentLocation, route, alternativeRoutes,
                   selectedRouteIndex, error, speed, currentEta, lastEtaUpdate,
                   voiceEnabled, updateFrequency, isNavigationCardVisible,
                   cardState, lastRouteSwitch, heading>>
    /\ UNCHANGED <<cacheVars, locationVars, retryVars, selectorVars>>

\* getPlaceDetails throws: handleError dispatches setError(error.message) and
\* setLoading(false)
GetPlaceDetailsRejects(p) ==
    /\ p \in placeLookups
    /\ placeLookups' = placeLookups \ {p}
    /\ error' = Some("Failed to fetch place details")
    /\ loading' = FALSE
    /\ op' = Ran("handlePlaceSelect", Some(p.name), "failed")
    /\ logged' = Some("Error:")
    /\ spoken' = Null
    /\ UNCHANGED <<currentLocation, waypoints, route, alternativeRoutes,
                   selectedRouteIndex, speed, currentEta, lastEtaUpdate,
                   voiceEnabled, updateFrequency, isNavigationCardVisible,
                   cardState, lastRouteSwitch, heading>>
    /\ UNCHANGED <<now, platformOS, tzHour, snapshotAt, spokeAt, args, returned>>
    /\ UNCHANGED screenVars
    /\ UNCHANGED <<cacheVars, locationVars, retryVars, selectorVars>>

InitItinerary == Init /\ platformOS = "ios" /\ tzHour = 0

\* the list's remove button dispatches the index of its row
NextItinerary ==
    \/ \E name \in FreePlaces : HandlePlaceSelect(name)
    \/ \E p \in placeLookups : GetPlaceDetailsResolves(p)
    \/ \E p \in placeLookups : GetPlaceDetailsRejects(p)
    \/ \E index \in 0..(Len(waypoints) - 1) : removeWaypoint(index)
    \/ \E from \in 0..(Len(waypoints) - 1), to \in 0..(Len(waypoints) - 1) :
          updateWaypointOrder([from |-> from, to |-> to])

SpecItinerary == InitItinerary /\ [][NextItinerary]_vars

----------------------------------------------------------------------------
(* Fetching: NavigationScreen's effects and its retry button, with what they *)
(* await, while position fixes arrive and the user picks a destination.      *)

\* how many position fixes arrive
MaxFixes == 2
\* how many fetchRoute runs of the retry button are pending at a time
MaxPendingRetries == 1

\* route?.polyline && route?.steps
ValidRoute(r) == r.polyline # <<>> /\ r.steps # Null

\* handleRetry: setError(null), and with a location and a waypoint fetchRoute
\* dispatches setLoading(true) and awaits getDirections
HandleRetry ==
    /\ error # Null
    /\ error' = Null
    /\ IF currentLocation # Null /\ Len(waypoints) > 0
       THEN /\ Cardinality(retries \cup {FetchEffectDepsNow}) <= MaxPendingRetries
            /\ retries' = retries \cup {FetchEffectDepsNow}
            /\ loading' = TRUE
            /\ Host("handleRetry", Null, "pending")
       ELSE /\ UNCHANGED <<retries, loading>>
            /\ Host("handleRetry", Null, "idle")
    /\ UNCHANGED <<currentLocation, waypoints, route, alternativeRoutes,
                   selectedRouteIndex, speed, currentEta, lastEtaUpdate,
                   voiceEnabled, updateFrequency, isNavigationCardVisible,
                   cardState, lastRouteSwitch, heading>>
    /\ UNCHANGED <<cacheVars, locationVars, searchVars, selectorVars>>

\* getDirections resolves with routes for the retry run r: a main route
\* without polyline or steps throws; else setRoute, setAlternativeRoutes with
\* the valid alternates when there are alternates, setNavigationCardVisible,
\* setCardState, and the entry is written with the run's waypoints (stored:
\* setItem did not throw); setLoading(false) in any case.
RetryResolves(r, routes, stored) ==
    /\ r \in retries
    /\ retries' = retries \ {r}
    /\ loading' = FALSE
    /\ IF ~ValidRoute(Head(routes))
       THEN /\ error' = Some("Failed to fetch route. Please try again.")
            /\ op' = Ran("retryRoute", Some([run |-> r, routes |-> routes]), "failed")
            /\ logged' = Some("[NavigationScreen] Route fetch error:")
            /\ UNCHANGED <<route, alternativeRoutes, selectedRouteIndex,
                           isNavigationCardVisible, cardState, cache>>
       ELSE /\ route' = Some(Head(routes))
            /\ selectedRouteIndex' = 0
            /\ alternativeRoutes' =
                   IF Len(Tail(routes)) > 0
                   THEN Some(SelectSeq(Tail(routes), ValidRoute))
                   ELSE alternativeRoutes
            /\ isNavigationCardVisible' = TRUE
            /\ cardState' = "expanded"
            /\ cache' = IF stored THEN Some(CacheEntry(routes, r.waypoints, now))
                        ELSE cache
            /\ error' = IF stored THEN error
                        ELSE Some("Failed to fetch route. Please try again.")
            /\ op' = Ran("retryRoute", Some([run |-> r, routes |-> routes]), "stored")
            /\ logged' = IF stored THEN Null
                         ELSE Some("[NavigationScreen] Route fetch error:")
    /\ spoken' = Null
    /\ UNCHANGED <<currentLocation, waypoints, speed, currentEta, lastEtaUpdate,
                   voiceEnabled, updateFrequency, lastRouteSwitch, heading>>
    /\ UNCHANGED <<now, platformOS, tzHour, snapshotAt, spokeAt, args, returned>>
    /\ UNCHANGED screenVars
    /\ UNCHANGED <<cacheLoads, cacheEffectDeps, fetches, fetchEffectDeps>>
    /\ UNCHANGED <<locationVars, searchVars, selectorVars>>

\* getDirections throws for the retry run r
RetryRejects(r) ==
    /\ r \in retries
    /\ retries' = retries \ {r}
    /\ error' = Some("Failed to fetch route. Please try again.")
    /\ loading' = FALSE
    /\ op' = Ran("retryRoute", Null, "failed")
    /\ logged' = Some("[NavigationScreen] Route fetch error:")
    /\ spoken' = Null
    /\ UNCHANGED <<currentLocation, waypoints, route, alternativeRoutes,
                   selectedRouteIndex, speed, currentEta, lastEtaUpdate,
                   voiceEnabled, updateFrequency, isNavigationCardVisible,
                   cardState, lastRouteSwitch, heading>>
    /\ UNCHANGED <<now, platformOS, tzHour, snapshotAt, spokeAt, args, returned>>
    /\ UNCHANGED screenVars
    /\ UNCHANGED <<cacheVars, locationVars, searchVars, selectorVars>>

\* the position fixes, each a step to the north of the one before
NextFix ==
    IF currentLocation = Null THEN Loc(0, 0)
    ELSE Loc(currentLocation[1].latitude + 1, 0)

\* what the directions service answers to the request of a run: from the
\* first fix the main route, alone or with an alternate; from a later fix
\* the other route, alone or with an alternate
DirectionsFor(f) ==
    IF f.currentLocation = Some(Loc(0, 0))
    THEN {<<MainRoute>>, <<MainRoute, AltRoute>>}
    ELSE {<<AltRoute>>, <<AltRoute, EmptyStepsRoute>>}

InitFetch == Init /\ platformOS = "ios" /\ tzHour = 0

NextFetch ==
    \/ /\ EffectsRan
       /\ NextFix.latitude < MaxFixes
       /\ setCurrentLocation(NextFix)
    \/ /\ EffectsRan
       /\ Len(waypoints) = 0
       /\ HandlePlaceSelect("Los Angeles")
    \/ \E p \in placeLookups : GetPlaceDetailsResolves(p)
    \/ \E p \in placeLookups : GetPlaceDetailsRejects(p)
    \/ CacheEffect
    \/ \E ws \in cacheLoads : LoadCachedRoute(ws)
    \/ FetchEffect
    \/ \E f \in fetches, stored \in BOOLEAN :
          \E routes \in DirectionsFor(f) : GetDirectionsResolves(f, routes, stored)
    \/ \E f \in fetches : GetDirectionsRejects(f)
    \/ EffectsRan /\ HandleRetry
    \/ \E r \in retries, stored \in BOOLEAN :
          \E routes \in DirectionsFor(r) \cup {<<NoPolylineRoute>>} :
             RetryResolves(r, routes, stored)
    \/ \E r \in retries : RetryRejects(r)

SpecFetch == InitFetch /\ [][NextFetch]_vars

----------------------------------------------------------------------------
(* Properties of fetching *)

\* a fetchRoute run, of the effect or of the retry button, has just put the
\* main route of its response into the store
FetchStored ==
    /\ op.name \in {"fetchRoute", "retryRoute"}
    /\ op.result = "stored"

\* the alternates of the catalog
Alternates == IF alternativeRoutes = Null THEN <<>> ELSE alternativeRoutes[1]

\* C34: when a fetch has replaced the primary route, every alternate of the
\* catalog is a route of the same response, also when the response holds one
\* route only.
C34_AlternatesOfSameResponse ==
    FetchStored =>
        /\ route = Some(Head(op.arg[1].routes))
        /\ \A i \in 1..Len(Alternates) :
              \E j \in 2..Len(op.arg[1].routes) :
                 Alternates[i] = op.arg[1].routes[j]

\* every run has completed, none has failed since the last one started, and
\* the last thing that happened is that a run of the fetch effect stored its
\* response
FetchesSettled ==
    /\ fetches = {}
    /\ retries = {}
    /\ EffectsRan
    /\ error = Null
    /\ op.name = "fetchRoute"
    /\ op.result = "stored"

\* C35: once all fetches have completed, the route in the store is the
\* response to the fetch that was started last; the response of an older
\* fetch does not replace it.
C35_LastStartedWins ==
    FetchesSettled =>
        /\ op.arg[1].run = FetchEffectDepsNow
        /\ \E routes \in DirectionsFor(FetchEffectDepsNow) :
              route = Some(Head(routes))

\* the withErrorHandling operations that are pending: the runs of the fetch
\* effect and of SearchBar's handlePlaceSelect
PendingOperations == fetches \cup placeLookups

\* a withErrorHandling operation has just failed
OperationFailed ==
    /\ op.name \in {"fetchRoute", "handlePlaceSelect"}
    /\ op.result = "failed"

\* C36: loading is true while a withErrorHandling operation is pending and
\* false once all of them (and the retry button's fetch) have finished; after
\* an operation has failed, error holds its message.
C36_LoadingWhilePending ==
    /\ PendingOperations # {} => loading
    /\ (PendingOperations = {} /\ retries = {}) => ~loading
    /\ OperationFailed => error \in {Some("No routes found"),
                                     Some("Failed to fetch place details")}

----------------------------------------------------------------------------
(* Properties of useLocation's clean-up *)

\* C37: once the clean-up of useLocation has run, no position or heading
\* watch is active and neither setCurrentLocation nor setHeading is
\* dispatched, also when the clean-up runs while setupLocation awaits.
C37_NothingAfterCleanup ==
    ~locationMounted =>
        /\ positionWatch # "active"
        /\ headingWatch # "active"
        /\ op.name \notin {"setCurrentLocation", "setHeading"}

----------------------------------------------------------------------------
(* The route lists of the components: RouteSelector's buttons and what its   *)
(* press dispatches, the list NavigationInstructions shows the selected      *)
(* route from, and the list Map draws from.                                  *)

\* RouteSelector: nothing without a route or without an alternativeRoutes
\* array; else [route, ...alternativeRoutes].filter(r => r && r.polyline &&
\* r.steps)
SelectorRoutes(r, alts) ==
    IF r = Null \/ alts = Null THEN <<>>
    ELSE SelectSeq(r \o alts[1], ValidRoute)

\* NavigationInstructions: alternativeRoutes ? [route, ...alternativeRoutes]
\* : [route], with a route
InstructionsRoutes(r, alts) ==
    IF r = Null THEN <<>> ELSE AvailableRoutes(r, alts)

\* Map.renderRoute: nothing without route?.polyline; else
\* [route, ...alternativeRoutes].filter(r => r?.polyline), or [route]
MapRoutes(r, alts) ==
    IF r = Null \/ r[1].polyline = <<>> THEN <<>>
    ELSE IF alts # Null
    THEN SelectSeq(r \o alts[1], LAMBDA x : x.polyline # <<>>)
    ELSE r

\* routes[selectedRouteIndex] || fallback
RouteShown(routes, index, fallback) ==
    IF index < Len(routes) THEN Some(routes[index + 1]) ELSE fallback

\* handleRouteSelect(index) of the button at index: ignored while switching;
\* else the animation starts, and its end will dispatch
PressRouteButton(index) ==
    /\ routeSwitch = Null
    /\ index < Len(SelectorRoutes(route, alternativeRoutes))
    /\ routeSwitch' = Some([index |-> index,
                            route |-> SelectorRoutes(route, alternativeRoutes)[index + 1],
                            stage |-> "animating"])
    /\ Host("handleRouteSelect", Some(index), "animating")
    /\ UNCHANGED sliceVars
    /\ UNCHANGED <<cacheVars, locationVars, searchVars, retryVars>>

\* the animation is over: dispatch(setSelectedRoute(index))
AnimationComplete ==
    /\ routeSwitch # Null
    /\ routeSwitch[1].stage = "animating"
    /\ routeSwitch' = Some([routeSwitch[1] EXCEPT !.stage = "dispatched"])
    /\ SelectedRouteReducer(Num(routeSwitch[1].index))
    /\ UNCHANGED <<cacheVars, locationVars, searchVars, retryVars>>

\* 500 ms after the dispatch: setIsSwitching(false)
SwitchingReset ==
    /\ routeSwitch # Null
    /\ routeSwitch[1].stage = "dispatched"
    /\ routeSwitch' = Null
    /\ Host("handleRouteSelect", Null, "reset")
    /\ UNCHANGED sliceVars
    /\ UNCHANGED <<cacheVars, locationVars, searchVars, retryVars>>

\* the main routes of a directions response, and the alternates it may hold:
\* whole, or without steps, or without polyline
SelectorPrimaries == {MainRoute, EmptyStepsRoute}
SelectorAlternates == {AltRoute, NoStepsRoute, NoPolylineRoute}

InitSelector == Init /\ platformOS = "ios" /\ tzHour = 0

NextSelector ==
    \/ \E r \in SelectorPrimaries : setRoute(Some(r))
    \/ \E rs \in SeqsUpTo(SelectorAlternates, MaxAlternatives) :
          setAlternativeRoutes(rs)
    \/ \E index \in 0..MaxAlternatives : PressRouteButton(index)
    \/ AnimationComplete
    \/ SwitchingReset

SpecSelector == InitSelector /\ [][NextSelector]_vars

\* RouteSelector has just dispatched the index of the button pressed
SelectorDispatched ==
    /\ routeSwitch # Null
    /\ routeSwitch[1].stage = "dispatched"
    /\ op.name = "setSelectedRoute"

\* C38: the index RouteSelector dispatches denotes, in the catalog of
\* setSelectedRoute, the route of the button pressed, and the lists of
\* NavigationInstructions and of Map hold that same route at that index.
C38_IndexDenotesPressedRoute ==
    SelectorDispatched =>
        LET index   == routeSwitch[1].index
            pressed == Some(routeSwitch[1].route)
        IN  /\ TargetOf(Num(index)) = pressed
            /\ RouteShown(InstructionsRoutes(route, alternativeRoutes), index, route)
                   = pressed
            /\ RouteShown(MapRoutes(route, alternativeRoutes), index, Null) = pressed

----------------------------------------------------------------------------
(* The navigation card: every reducer that writes isNavigationCardVisible or *)
(* cardState, dispatched in any order.                                       *)

CardStates == {"hidden", "minimized", "expanded"}

InitCard == Init /\ platformOS = "ios" /\ tzHour = 0

NextCard ==
    \/ \E r \in CatalogPrimaries : setRoute(Some(r))
    \/ \E visible \in BOOLEAN : setNavigationCardVisible(visible)
    \/ \E st \in CardStates : setCardState(st)
    \/ /\ Len(waypoints) < MaxWaypoints
       /\ addWaypoint([name |-> "A", order |-> Len(waypoints)])
    \/ clearWaypoints
    \/ clearNavigation

SpecCard == InitCard /\ [][NextCard]_vars

\* C39: in every reachable state, the initial one included,
\* isNavigationCardVisible is true exactly when cardState is not 'hidden'.
C39_VisibleIffNotHidden ==
    isNavigationCardVisible <=> cardState # "hidden"

----------------------------------------------------------------------------
(* The ETA snapshot against the route it was computed for.                   *)

\* C40: whenever route is null, currentEta is null, so no ETA snapshot
\* outlives its route and the first snapshot of a later route is a first-ever
\* snapshot.
C40_NoEtaWithoutRoute ==
    route = Null => currentEta = Null

====
